---------------------------- MODULE Spec2Model ----------------------------
(***************************************************************************)
(* A model of the trade simulator's execution core:                        *)
(*   src/src/execution_engine.py  ExecutionEngine.simulate_order_execution *)
(*   src/src/slippage_model.py    SlippageModel.calculate_slippage         *)
(*   src/src/impact_model.py      MarketImpactModel.calculate_impact       *)
(*   src/src/fee_model.py         MakerTakerFeeModel.calculate_fee         *)
(*                                                                         *)
(* Numbers.  The program computes with Python floats.  The model computes  *)
(* with exact rationals <<n, d>> (d > 0, lowest terms), i.e. with the real *)
(* numbers the floats approximate; binary rounding error of single         *)
(* operations is not modelled.  round(x, k) is round-half-to-even on the   *)
(* exact value, which is what Python does for a float.  TLC's integers are *)
(* 32 bit and TLC stops with an error on overflow, so the inputs are small *)
(* numbers (prices around 2, sizes up to 10) rather than 27355.0.          *)
(*                                                                         *)
(* Strings.  side and order_type are lower-case strings (the code applies  *)
(* .lower() before every comparison).  None for a number is <<0, 0>>; a    *)
(* dict is a record with the set of its keys.                              *)
(*                                                                         *)
(* Exceptions.  A Python exception that leaves simulate_order_execution    *)
(* ends the call with pc = "raised" and result = [exception |-> name].     *)
(***************************************************************************)
EXTENDS Integers, Sequences, FiniteSets, TLC

-----------------------------------------------------------------------------
(* Exact rational arithmetic: the float operators + - * / < <= min max.    *)

Abs(n) == IF n < 0 THEN -n ELSE n

RECURSIVE GCD(_, _)
GCD(a, b) == IF b = 0 THEN a ELSE GCD(b, a % b)

\* The rational n/d in lowest terms with a positive denominator (d # 0).
R(n, d) ==
    LET g == GCD(Abs(n), Abs(d))
        s == IF d < 0 THEN -1 ELSE 1
    IN  <<(s * n) \div g, Abs(d) \div g>>

Zero == <<0, 1>>
One == <<1, 1>>
Hundred == <<100, 1>>

RAdd(a, b) ==
    LET g == GCD(a[2], b[2])
    IN  R(a[1] * (b[2] \div g) + b[1] * (a[2] \div g), (a[2] \div g) * b[2])

RNeg(a) == <<-a[1], a[2]>>

RSub(a, b) == RAdd(a, RNeg(b))

RMul(a, b) ==
    LET g1 == GCD(Abs(a[1]), b[2])
        g2 == GCD(Abs(b[1]), a[2])
    IN  IF a[1] = 0 \/ b[1] = 0 THEN Zero
        ELSE R((a[1] \div g1) * (b[1] \div g2), (a[2] \div g2) * (b[2] \div g1))

\* a / b for b # 0; the callers test b = 0 first (Python raises there).
RDiv(a, b) == RMul(a, R(b[2], b[1]))

\* The comparisons look at the integer parts first and cross-multiply only
\* the fractional parts, which keeps the products small.
RLt(a, b) ==
    LET fa == a[1] \div a[2]
        fb == b[1] \div b[2]
    IN  fa < fb \/ (fa = fb /\ (a[1] % a[2]) * b[2] < (b[1] % b[2]) * a[2])

RLe(a, b) ==
    LET fa == a[1] \div a[2]
        fb == b[1] \div b[2]
    IN  fa < fb \/ (fa = fb /\ (a[1] % a[2]) * b[2] <= (b[1] % b[2]) * a[2])

RMin(a, b) == IF RLe(a, b) THEN a ELSE b

RMax(a, b) == IF RLe(a, b) THEN b ELSE a

RECURSIVE Pow10(_)
Pow10(k) == IF k = 0 THEN 1 ELSE 10 * Pow10(k - 1)

\* floor(n/d * 10^k) and the remainder left over d, by long division, so that
\* no intermediate exceeds 10 * d.
RECURSIVE ScaledFloor(_, _, _, _)
ScaledFloor(acc, r, d, k) ==
    IF k = 0 THEN <<acc, r>>
    ELSE ScaledFloor(acc * 10 + ((r * 10) \div d), (r * 10) % d, d, k - 1)

\* Truncation to k decimals in place of rounding.
round_down(x, k) ==
    LET n == Abs(x[1])
        sf == ScaledFloor(n \div x[2], n % x[2], x[2], k)
    IN  R((IF x[1] < 0 THEN -sf[1] ELSE sf[1]), Pow10(k))

\* Python's round(x, k) for a float x: the nearest multiple of 10^-k, a tie
\* going to the even one.
round(x, k) ==
    LET n == Abs(x[1])
        sf == ScaledFloor(n \div x[2], n % x[2], x[2], k)
        q == sf[1]
        r2 == 2 * sf[2]
        up == r2 > x[2] \/ (r2 = x[2] /\ q % 2 = 1)
        m == IF up THEN q + 1 ELSE q
    IN  R((IF x[1] < 0 THEN -m ELSE m), Pow10(k))


-----------------------------------------------------------------------------
(* The inputs of one call of simulate_order_execution.                     *)

\* Levels per side that carry free quantities, on the side the order walks.
MaxDepth == 2

\* book[side][:5] in _calculate_liquidity_factor.
TopLevels == 5

\* None for a number is <<0, 0>>, which is no rational; for a fee profile it
\* is the profile without rates.
None == <<0, 0>>

NoProfile == [maker |-> None, taker |-> None]

\* Level prices, in eighths: asks 2.0, 2.125, ... ascending; bids 1.75,
\* 1.625, ... descending, or from 2.25 when the book is crossed.
AskPrice(i) == R(16 + (i - 1), 8)

BidPrice(crossed, i) == R((IF crossed THEN 18 ELSE 14) - (i - 1), 8)

\* Quantities of a level in base currency: none, a dust amount, one unit,
\* several units.
LevelQuantities == {Zero, R(1, 1000), One, R(3, 1)}

\* Leading levels of quantity 0 on both sides: none, or the whole top of the
\* book that _calculate_liquidity_factor sums.
ZeroPrefixes == {0, TopLevels}

Tails(depth) == UNION {[1..n -> LevelQuantities] : n \in 0..depth}

\* The side the order does not walk only gives the best price and its
\* liquidity sum: absent, without liquidity, with liquidity.
OtherTails == {<< >>, <<Zero>>, <<One>>}

Asks(z, tail) ==
    [i \in 1..(z + Len(tail)) |-> <<AskPrice(i), IF i <= z THEN Zero ELSE tail[i - z]>>]

Bids(crossed, z, tail) ==
    [i \in 1..(z + Len(tail)) |->
        <<BidPrice(crossed, i), IF i <= z THEN Zero ELSE tail[i - z]>>]

\* A snapshot: the dict's keys and the level lists, each level <<price,
\* quantity>>.  A list under an absent key is never read.
Book(bids, asks) == [keys |-> {"bids", "asks"}, bids |-> bids, asks |-> asks]

\* Snapshots for an order of side s: bids descending, asks ascending.  An
\* empty side occurs (z = 0 and an empty tail).
Books(s) ==
    {Book(Bids(c, z, IF s = "sell" THEN ct ELSE ot),
          Asks(z, IF s = "sell" THEN ot ELSE ct)) :
        c \in BOOLEAN, z \in ZeroPrefixes, ct \in Tails(MaxDepth), ot \in OtherTails}

PlainBook == Book(Bids(FALSE, 0, <<One>>), Asks(0, <<One>>))

\* Snapshots with a key absent ('bids' not in order_book).
BrokenBooks ==
    {[PlainBook EXCEPT !.keys = {"asks"}, !.bids = << >>],
     [PlainBook EXCEPT !.keys = {"bids"}, !.asks = << >>]}

\* order_quantity in quote currency: 0 (invalid), below the 2-decimal
\* rounding step, sub-cent remainders, and more than any book here holds.
Quantities == {Zero, R(4, 1000), R(6, 1000), One, R(2004, 1000), R(10, 1)}

\* order_price: None, 0 (invalid), and limits around the best prices.
LimitPrices == {R(14, 8), R(16, 8), R(17, 8)}

OrderPrices(t) == IF t = "market" THEN {None} ELSE {None, Zero} \cup LimitPrices

\* user_fee_profile: None (the default is filled in), or rates in percent
\* with a maker rebate (a negative rate), large enough to show in fee_paid
\* after rounding.
FeeProfiles == {NoProfile, [maker |-> R(-1, 2), taker |-> One]}

-----------------------------------------------------------------------------
(* The state of one call.                                                  *)

VARIABLES
    side, order_type, order_quantity, order_book, order_price,
    user_fee_profile, latency,  \* the arguments; order_book is the local name,
                                \* which the latency simulation rebinds
    snapshot,                   \* the caller's order book object
    pc,                         \* "start", "stale", "walk", "compose", "done", "raised", "idle"
    best_bid, best_ask, mid_price, is_marketable,
    level,                      \* index of the next level of the walk
    executed_quantity_base, executed_quantity_quote,
    remaining_quantity_quote, execution_type, warnings,
    average_price, slippage_pct, fee_rate, fee_paid,   \* before rounding
    impact_pct_sq,              \* impact_pct on calculate_impact's squared scale
    fills,                      \* history: what the walk took at each level
    result,                     \* the value returned, or the exception
    adv,                        \* impact_model.adv: the ADV table of the engine
    call,                       \* history: the arguments as the caller passed them
    earlier,                    \* history: the calls this engine has completed
    ncalls,                     \* history: how many calls were started
    direct,                     \* the last call made on a model directly
    adv_before,                 \* history: adv before that call
    nops,                       \* history: how many such calls were made
    handler,                    \* the WebSocketHandler: order_book, data_buffer, lock
    ws_thread,                  \* the thread of on_message: where it is in a message
    reader,                     \* a thread calling get_current_order_book
    simulation                  \* the SimulationEngine, its thread and its caller

args == <<side, order_type, order_quantity, order_book, order_price,
          user_fee_profile, latency>>

locals == <<best_bid, best_ask, mid_price, is_marketable, level,
            executed_quantity_base, executed_quantity_quote,
            remaining_quantity_quote, execution_type, warnings,
            average_price, slippage_pct, fee_rate, fee_paid, impact_pct_sq, fills>>

\* What a call of simulate_order_execution has no access to.
feed == <<handler, ws_thread, reader>>

outside == <<call, earlier, ncalls, direct, adv_before, nops, feed, simulation>>

vars == <<args, snapshot, pc, locals, result, adv, outside>>

-----------------------------------------------------------------------------
(* The three cost models.  A call that can raise returns                    *)
(* [exception, value]; exception = "none" when it returns normally.         *)

Returns(v) == [exception |-> "none", value |-> v]

Raises(e) == [exception |-> e, value |-> Zero]

\* calculate_slippage relative to the executed price instead of the mid.
calculate_slippage_vs_executed(s, mid, executed_price, order_size) ==
    IF RLe(mid, Zero) \/ RLe(executed_price, Zero) THEN Zero
    ELSE LET pct ==
                 IF s = "buy"
                 THEN RMul(RDiv(RSub(executed_price, mid), executed_price), Hundred)
                 ELSE RMul(RDiv(RSub(mid, executed_price), executed_price), Hundred)
         IN  RMax(Zero, pct)

\* calculate_slippage without the floor at 0.
calculate_slippage_signed(s, mid, executed_price, order_size) ==
    IF RLe(mid, Zero) \/ RLe(executed_price, Zero) THEN Zero
    ELSE IF s = "buy"
         THEN RMul(RDiv(RSub(executed_price, mid), mid), Hundred)
         ELSE RMul(RDiv(RSub(mid, executed_price), mid), Hundred)

\* SlippageModel.calculate_slippage; order_size is only logged.
calculate_slippage(s, mid, executed_price, order_size) ==
    IF RLe(mid, Zero) \/ RLe(executed_price, Zero) THEN Zero
    ELSE LET pct ==
                 IF s = "buy"
                 THEN RMul(RDiv(RSub(executed_price, mid), mid), Hundred)
                 ELSE RMul(RDiv(RSub(mid, executed_price), mid), Hundred)
         IN  RMax(Zero, pct)

\* _estimate_slippage_rule_based, lines 124-131: what the estimate takes at
\* a level, <<executable_base, executable_quote>>.
estimate_executable(s, price, quantity, remaining_size) ==
    IF s = "buy"
    THEN LET executable_quote == RMin(remaining_size, RMul(price, quantity))
         IN  <<RDiv(executable_quote, price), executable_quote>>
    ELSE LET executable_base == RMin(RDiv(remaining_size, price), quantity)
         IN  <<executable_base, RMul(executable_base, price)>>

\* The loop of _estimate_slippage_rule_based over the first n levels: the
\* totals after them; the loop is left by break once remaining_size <= 0.
RECURSIVE estimate_walk(_, _, _, _)
estimate_walk(s, order_size, levels, n) ==
    IF n = 0
    THEN [remaining_size |-> order_size, total_cost |-> Zero, total_quantity_base |-> Zero]
    ELSE LET before == estimate_walk(s, order_size, levels, n - 1)
             e == estimate_executable(s, levels[n][1], levels[n][2], before.remaining_size)
         IN  IF RLe(before.remaining_size, Zero) THEN before
             ELSE [remaining_size |-> RSub(before.remaining_size, e[2]),
                   total_cost |-> RAdd(before.total_cost, e[2]),
                   total_quantity_base |-> RAdd(before.total_quantity_base, e[1])]

\* avg_execution_price of _estimate_slippage_rule_based: what is left after
\* the loop is added at the price of the last level.
estimate_average_price(s, order_size, book) ==
    LET levels == IF s = "buy" THEN book.asks ELSE book.bids
        walked == estimate_walk(s, order_size, levels, Len(levels))
        short == RLt(Zero, walked.remaining_size) /\ levels # << >>
        total_cost == IF short THEN RAdd(walked.total_cost, walked.remaining_size)
                      ELSE walked.total_cost
        total_quantity_base ==
            IF short
            THEN RAdd(walked.total_quantity_base,
                      RDiv(walked.remaining_size, levels[Len(levels)][1]))
            ELSE walked.total_quantity_base
    IN  IF RLt(Zero, total_quantity_base) THEN RDiv(total_cost, total_quantity_base)
        ELSE Zero

\* SlippageModel.estimate_slippage with use_ml_model = False, which is
\* _estimate_slippage_rule_based.
estimate_slippage(s, order_size, book) ==
    LET best_bid_ == IF book.bids # << >> THEN book.bids[1][1] ELSE Zero
        best_ask_ == IF book.asks # << >> THEN book.asks[1][1] ELSE Zero
        mid == RDiv(RAdd(best_bid_, best_ask_), R(2, 1))
    IN  IF RLe(best_bid_, Zero) \/ RLe(best_ask_, Zero) THEN Zero
        ELSE calculate_slippage(s, mid, estimate_average_price(s, order_size, book),
                                order_size)

\* sum(qty for _, qty in levels[:5])
RECURSIVE SumQty(_, _)
SumQty(levels, n) ==
    IF n = 0 THEN Zero ELSE RAdd(SumQty(levels, n - 1), levels[n][2])

top_liquidity(levels) ==
    SumQty(levels, IF Len(levels) < TopLevels THEN Len(levels) ELSE TopLevels)

\* MarketImpactModel._calculate_liquidity_factor: the division by
\* bid_liquidity + ask_liquidity is not guarded.
_calculate_liquidity_factor(s, book) ==
    LET bid == IF book.bids # << >> THEN book.bids[1][1] ELSE Zero
        ask == IF book.asks # << >> THEN book.asks[1][1] ELSE Zero
        mid == RDiv(RAdd(bid, ask), R(2, 1))
        spread_bps == RMul(RDiv(RSub(ask, bid), mid), R(10000, 1))
        bid_liquidity == top_liquidity(book.bids)
        ask_liquidity == top_liquidity(book.asks)
        total == RAdd(bid_liquidity, ask_liquidity)
        against == IF s = "buy" THEN RSub(bid_liquidity, ask_liquidity)
                   ELSE RSub(ask_liquidity, bid_liquidity)
        imbalance_factor == RAdd(One, RMax(Zero, RDiv(against, total)))
        spread_factor == RAdd(One, RDiv(spread_bps, Hundred))
        liquidity_factor == RMul(spread_factor, imbalance_factor)
    IN  IF RLe(bid, Zero) \/ RLe(ask, Zero) THEN Returns(R(3, 2))
        ELSE IF total = Zero THEN Raises("ZeroDivisionError")
        ELSE Returns(RMin(RMax(R(1, 2), liquidity_factor), R(3, 1)))

\* MarketImpactModel.__init__: gamma, and the ADV table of the engine's model
\* (delta = 0.5: the power is a square root).
gamma == R(1, 10)

default_adv == [symbol \in {"BTC-USDT", "ETH-USDT", "default"} |->
                   CASE symbol = "BTC-USDT" -> 1000000000
                     [] symbol = "ETH-USDT" -> 500000000
                     [] OTHER -> 100000000]

\* calculate_impact overwriting the ADV it has used (with 100).
adv_after_impact_forgetful(table, symbol, order_size) == [table EXCEPT ![symbol] = 100]

\* The ADV table after calculate_impact: the method only reads self.adv.
adv_after_impact(table, symbol, order_size) == table

\* update_adv without the test of the new value.
update_adv_unchecked(table, symbol, new_adv) ==
    [k \in DOMAIN table \cup {symbol} |-> IF k = symbol THEN new_adv ELSE table[k]]

\* MarketImpactModel.update_adv: the ADV table after the call.
update_adv(table, symbol, new_adv) ==
    IF new_adv <= 0 THEN table
    ELSE [k \in DOMAIN table \cup {symbol} |-> IF k = symbol THEN new_adv ELSE table[k]]

\* calculate_impact with the relative size inverted: adv / order_size.
calculate_impact_inverse(s, order_size, book, symbol) ==
    LET a == IF symbol \in DOMAIN adv THEN adv[symbol] ELSE adv["default"]
        g == RMul(gamma, R(10000, 1))
        base_sq == RDiv(RMul(RMul(g, g), R(1, a)), order_size)
        lf == _calculate_liquidity_factor(s, book)
    IN  IF lf.exception # "none" THEN lf
        ELSE Returns(RMul(base_sq, RMul(lf.value, lf.value)))

\* MarketImpactModel.calculate_impact on a given ADV table.  gamma *
\* (order_size / adv) ^ 0.5 * liquidity_factor is irrational in general; the
\* value returned here is the square of (impact * 10^4), which is rational
\* and orders the same way:
\* (gamma * 10^4)^2 / adv * order_size * liquidity_factor^2.
calculate_impact_on(table, s, order_size, book, symbol) ==
    LET a == IF symbol \in DOMAIN table THEN table[symbol] ELSE table["default"]
        g == RMul(gamma, R(10000, 1))
        base_sq == RMul(RMul(RMul(g, g), R(1, a)), order_size)
        lf == _calculate_liquidity_factor(s, book)
    IN  IF lf.exception # "none" THEN lf
        ELSE Returns(RMul(base_sq, RMul(lf.value, lf.value)))

\* MarketImpactModel.calculate_impact: the table is self.adv.
calculate_impact(s, order_size, book, symbol) ==
    calculate_impact_on(adv, s, order_size, book, symbol)

\* impact_pct > 0.1 in place of impact_pct > 1.0.
impact_exceeds_tenth(sq) == RLt(R(1000000, 1), sq)

\* impact_pct > 1.0 on the squared scale: sq > (10^4)^2.
impact_exceeds_one(sq) == RLt(R(100000000, 1), sq)

\* The largest r in lo..hi with r * r <= n (lo * lo <= n).
RECURSIVE ISqrtIn(_, _, _)
ISqrtIn(n, lo, hi) ==
    IF lo = hi THEN lo
    ELSE LET m == (lo + hi + 1) \div 2
         IN  IF m * m <= n THEN ISqrtIn(n, m, hi) ELSE ISqrtIn(n, lo, m - 1)

ISqrt(n) == ISqrtIn(n, 0, IF n < 46340 THEN n ELSE 46340)

\* round(impact_pct, 2) from the squared scale: the hundredths k with
\* (2k - 1)^2 * 2500 <= sq < (2k + 1)^2 * 2500.
round_impact(sq) ==
    LET y == (sq[1] \div sq[2]) \div 2500
    IN  R((ISqrt(y) + 1) \div 2, 100)

\* MakerTakerFeeModel.calculate_fee; execution_type is only logged.
\* calculate_fee without the test of the rate.
calculate_fee_signed(order_amount, rate, etype) ==
    IF RLe(order_amount, Zero) THEN Zero
    ELSE RMul(order_amount, RDiv(rate, Hundred))

\* MakerTakerFeeModel.calculate_fee; execution_type is only logged.
calculate_fee(order_amount, rate, etype) ==
    IF RLe(order_amount, Zero) \/ RLt(rate, Zero) THEN Zero
    ELSE RMul(order_amount, RDiv(rate, Hundred))

\* A user profile of the fee model: None, or a dict with some of the keys
\* vip_tier and trading_volume (a value under an absent key is never read).
Profile(keys, vip_tier, trading_volume) ==
    [is_none |-> FALSE, keys |-> keys, vip_tier |-> vip_tier,
     trading_volume |-> trading_volume]

NoneProfile == [is_none |-> TRUE, keys |-> {}, vip_tier |-> "", trading_volume |-> 0]

\* not user_profile
falsy(profile) == profile.is_none \/ profile.keys = {}

default_fees == <<R(6, 100), R(8, 100)>>

\* self.fee_tiers
fee_tiers ==
    <<[volume |-> 0, maker |-> R(6, 100), taker |-> R(8, 100)],
      [volume |-> 10000, maker |-> R(5, 100), taker |-> R(7, 100)],
      [volume |-> 100000, maker |-> R(4, 100), taker |-> R(6, 100)],
      [volume |-> 1000000, maker |-> R(3, 100), taker |-> R(5, 100)],
      [volume |-> 10000000, maker |-> R(2, 100), taker |-> R(4, 100)],
      [volume |-> 100000000, maker |-> R(1, 100), taker |-> R(3, 100)]>>

\* self.vip_profiles
vip_profiles ==
    [tier \in {"institutional", "market_maker", "retail"} |->
        CASE tier = "institutional" -> [maker |-> R(1, 100), taker |-> R(3, 100)]
          [] tier = "market_maker" -> [maker |-> R(-1, 100), taker |-> R(2, 100)]
          [] OTHER -> [maker |-> R(6, 100), taker |-> R(8, 100)]]

\* MakerTakerFeeModel._get_tier_multiplier
_get_tier_multiplier(order_size) ==
    IF RLt(R(1000000, 1), order_size) THEN R(7, 10)
    ELSE IF RLt(R(100000, 1), order_size) THEN R(8, 10)
    ELSE IF RLt(R(10000, 1), order_size) THEN R(9, 10)
    ELSE One

\* The loop over self.fee_tiers: the tier that applies once the first n
\* tiers were looked at, and whether the loop was left by break.
RECURSIVE applicable_tier(_, _)
applicable_tier(volume, n) ==
    IF n = 0 THEN [tier |-> fee_tiers[1], left |-> FALSE]
    ELSE LET before == applicable_tier(volume, n - 1)
         IN  IF before.left THEN before
             ELSE IF volume >= fee_tiers[n].volume
                  THEN [tier |-> fee_tiers[n], left |-> FALSE]
                  ELSE [before EXCEPT !.left = TRUE]

\* _get_fee_rates with the trading volume looked at before the VIP tier.
_get_fee_rates_volume_first(profile) ==
    IF falsy(profile) THEN default_fees
    ELSE IF "trading_volume" \in profile.keys
         THEN LET t == applicable_tier(profile.trading_volume, Len(fee_tiers)).tier
              IN  <<t.maker, t.taker>>
    ELSE IF "vip_tier" \in profile.keys /\ profile.vip_tier \in DOMAIN vip_profiles
         THEN <<vip_profiles[profile.vip_tier].maker, vip_profiles[profile.vip_tier].taker>>
    ELSE default_fees

\* MakerTakerFeeModel._get_fee_rates: <<maker, taker>>.
_get_fee_rates(profile) ==
    IF falsy(profile) THEN default_fees
    ELSE IF "vip_tier" \in profile.keys /\ profile.vip_tier \in DOMAIN vip_profiles
         THEN <<vip_profiles[profile.vip_tier].maker, vip_profiles[profile.vip_tier].taker>>
    ELSE IF "trading_volume" \in profile.keys
         THEN LET t == applicable_tier(profile.trading_volume, Len(fee_tiers)).tier
              IN  <<t.maker, t.taker>>
    ELSE default_fees

\* MakerTakerFeeModel.estimate with use_ml = False, which is
\* _estimate_rule_based; the best prices it reads for a limit order are not
\* used.
estimate(order_size, s, book, t, profile) ==
    LET is_taker == t = "market"
        rates == _get_fee_rates(profile)
        tier_multiplier == IF falsy(profile) THEN _get_tier_multiplier(order_size) ELSE One
        maker_fee == RMul(rates[1], tier_multiplier)
        taker_fee == RMul(rates[2], tier_multiplier)
    IN  IF is_taker THEN taker_fee ELSE maker_fee

-----------------------------------------------------------------------------
(* WebSocketHandler: the order book kept from the feed.  A dict is a         *)
(* function from its keys; a JSON message is a record with the set of its    *)
(* keys, json = FALSE when json.loads rejects the text.                      *)

\* float(x) of a JSON string.
float(x) ==
    CASE x = "-1" -> Returns(R(-1, 1))
      [] x = "0" -> Returns(Zero)
      [] x = "1" -> Returns(One)
      [] x = "2" -> Returns(R(2, 1))
      [] x = "99" -> Returns(R(99, 1))
      [] x = "100" -> Returns(R(100, 1))
      [] x = "100.0" -> Returns(R(100, 1))
      [] x = "101" -> Returns(R(101, 1))
      [] x = "102" -> Returns(R(102, 1))
      [] OTHER -> Raises("ValueError")

\* d[price] = size
set_item(d, price, size) ==
    [k \in DOMAIN d \cup {price} |-> IF k = price THEN size ELSE d[k]]

\* if price in d: del d[price]
del_item(d, price) == [k \in DOMAIN d \ {price} |-> d[k]]

\* One pass of "for price, size in data[side]" of on_message on the dict d
\* of that side: the dict after the entry, or the exception of the entry.
process_entry(d, entry) ==
    IF Len(entry) # 2 THEN Raises("ValueError")
    ELSE LET price == float(entry[1])
             size == float(entry[2])
         IN  IF price.exception # "none" THEN price
             ELSE IF size.exception # "none" THEN size
             ELSE IF RLt(Zero, size.value)
                  THEN Returns(set_item(d, price.value, size.value))
                  ELSE Returns(del_item(d, price.value))

\* The key of keys that sorts first: the greatest when reverse, else the least.
first_key(keys, reverse) ==
    CHOOSE k \in keys :
        \A other \in keys : IF reverse THEN RLe(other, k) ELSE RLe(k, other)

\* sorted(d.items(), key=lambda x: x[0], reverse=reverse)
RECURSIVE sorted_items(_, _)
sorted_items(d, reverse) ==
    IF DOMAIN d = {} THEN << >>
    ELSE LET k == first_key(DOMAIN d, reverse)
         IN  <<<<k, d[k]>>>> \o sorted_items(del_item(d, k), reverse)

\* The dict returned by get_current_order_book.
current_order_book(book) ==
    Book(sorted_items(book.bids, TRUE), sorted_items(book.asks, FALSE))

EmptyDict == [k \in {} |-> Zero]

Message(keys, bids, asks) == [json |-> TRUE, keys |-> keys, bids |-> bids, asks |-> asks]

Update(bids, asks) == Message({"bids", "asks"}, bids, asks)

\* Text that is not JSON.
NotJson == [json |-> FALSE, keys |-> {}, bids |-> << >>, asks |-> << >>]

\* The messages of the feed: updates that set, overwrite (also by another
\* spelling of the price) and remove levels, in several orders; an update
\* with a size that is no number and one with entries of four fields; a
\* message with bids only, a message of another kind, and text that is not
\* JSON.
Messages ==
    {Update(<<<<"100", "1">>, <<"99", "1">>>>, <<<<"101", "1">>, <<"102", "2">>>>),
     Update(<<<<"99", "2">>, <<"100", "1">>>>, <<<<"102", "1">>, <<"101", "2">>>>),
     Update(<<<<"100.0", "2">>>>, <<<<"101", "0">>>>),
     Update(<<<<"100", "1">>, <<"100", "2">>>>, << >>),
     Update(<<<<"100", "0">>, <<"99", "-1">>>>, <<<<"102", "0">>>>),
     Update(<<<<"100", "1">>>>, <<<<"101", "x">>, <<"102", "2">>>>),
     Update(<<<<"99", "1">>>>, <<<<"102", "2", "0", "1">>>>),
     Message({"bids"}, <<<<"100", "1">>>>, << >>),
     Message({"event"}, << >>, << >>),
     NotJson}

IdleWriter == [pc |-> "idle", data |-> NotJson, i |-> 0, received |-> 0]

\* The two dicts _add_mock_data assigns: ten bids from 65000.0 down and ten
\* asks from 65100.0 up, 100.0 apart, with the sizes of the source in tenths.
mock_order_book ==
    LET bid_sizes == <<25, 32, 51, 78, 105, 153, 201, 258, 302, 357>>
        ask_sizes == <<23, 35, 48, 67, 92, 125, 183, 227, 284, 339>>
        prices(first, step) == {R(first + step * (i - 1), 1) : i \in 1..10}
        index(first, step, k) == CHOOSE i \in 1..10 : k = R(first + step * (i - 1), 1)
    IN  [bids |-> [k \in prices(65000, -100) |-> R(bid_sizes[index(65000, -100, k)], 10)],
         asks |-> [k \in prices(65100, 100) |-> R(ask_sizes[index(65100, 100, k)], 10)]]

\* WebSocketHandler.__init__, with no message received and no reader yet.
NewHandler ==
    /\ handler = [ws |-> "None",
                  connected |-> FALSE,
                  order_book |-> [bids |-> EmptyDict, asks |-> EmptyDict],
                  data_buffer |-> << >>,
                  lock |-> "free",
                  latest_data |-> Book(<< >>, << >>)]
    /\ ws_thread = IdleWriter
    /\ reader = [pc |-> "idle", caller |-> "outside", returned |-> Book(<< >>, << >>),
                 seen |-> 0, reads |-> 0]

-----------------------------------------------------------------------------
(* SimulationEngine: the object, its simulation thread and the thread of   *)
(* its caller.                                                             *)

\* The number of data points of load_historical_data.
DataPoints == 3

\* SimulationEngine.__init__, then load_historical_data with DataPoints data
\* points and add_strategy with one strategy.  thread is where the thread
\* of simulation_thread is, caller where the caller is in
\* set_playback_control; processed, requested and at_request are history:
\* the ticks processed, the last control given, and the ticks that were
\* processed when it was given.
NewSimulation ==
    simulation = [mode |-> "backtest",
                  is_running |-> FALSE,
                  playback_control |-> "pause",
                  current_data_index |-> 0,
                  is_active |-> FALSE,
                  stop_event |-> FALSE,
                  _step_requested |-> "unset",
                  thread |-> "None",
                  caller |-> "idle",
                  processed |-> 0,
                  requested |-> "none",
                  at_request |-> 0,
                  controls |-> 0]

\* start(): nothing when the simulation is running; else the flags, the
\* strategies' start() and a new thread, which has not run yet.
start(s) ==
    IF s.is_running THEN s
    ELSE [s EXCEPT !.is_running = TRUE,
                   !.stop_event = FALSE,
                   !.is_active = TRUE,
                   !.thread = "started"]

\* stop() called by the thread `by`: nothing when the simulation is not
\* running; else the flags, the strategies' stop() and, with the simulation
\* thread alive, simulation_thread.join.  Thread.join raises RuntimeError
\* ("cannot join current thread") when the thread joins itself, and the
\* exception leaves _simulation_loop, which has no handler.
stop(s, by) ==
    IF ~s.is_running THEN s
    ELSE LET flags == [s EXCEPT !.is_running = FALSE,
                                !.stop_event = TRUE,
                                !.is_active = FALSE]
             alive == s.thread \notin {"None", "returned", "RuntimeError"}
         IN  IF alive /\ by = "simulation_thread"
             THEN [flags EXCEPT !.thread = "RuntimeError"]
             ELSE flags

\* _get_next_data() in backtest mode: the next data point and the index
\* moved on, or None at the end of the data.
_get_next_data(s) ==
    IF s.current_data_index < DataPoints
    THEN [data |-> s.current_data_index + 1,
          simulation |-> [s EXCEPT !.current_data_index = @ + 1]]
    ELSE [data |-> 0, simulation |-> s]

-----------------------------------------------------------------------------
(* ExecutionEngine.simulate_order_execution.                               *)

\* The small threshold of the walk's "fully filled" test.
fill_threshold == R(1, 100)

\* _validate_inputs without the check of the order type.
_validate_inputs_any_type(s, t, quantity, book, price) ==
    /\ s \in {"buy", "sell"}
    /\ ~RLe(quantity, Zero)
    /\ "bids" \in book.keys /\ "asks" \in book.keys
    /\ book.bids # << >> /\ book.asks # << >>
    /\ ~(t = "limit" /\ (price = None \/ RLe(price, Zero)))

\* ExecutionEngine._validate_inputs
_validate_inputs(s, t, quantity, book, price) ==
    /\ s \in {"buy", "sell"}
    /\ t \in {"market", "limit"}
    /\ ~RLe(quantity, Zero)
    /\ "bids" \in book.keys /\ "asks" \in book.keys
    /\ book.bids # << >> /\ book.asks # << >>
    /\ ~(t = "limit" /\ (price = None \/ RLe(price, Zero)))

\* ExecutionEngine._create_error_result
_create_error_result(error_message) ==
    [executed_quantity_base |-> Zero,
     executed_quantity_quote |-> Zero,
     average_price |-> Zero,
     slippage_pct |-> Zero,
     market_impact_pct |-> Zero,
     fee_paid |-> Zero,
     execution_type |-> "fail",
     warnings |-> <<error_message>>,
     exception |-> "none"]

\* No value yet: the call has not returned.
NoResult ==
    [_create_error_result("") EXCEPT !.execution_type = "pending", !.warnings = << >>]

\* The call left by an exception.
Raised(e) == [NoResult EXCEPT !.execution_type = "raised", !.exception = e]

default_fee_profile == [maker |-> R(6, 100), taker |-> R(8, 100)]

\* book_side: the levels the order walks.
book_side == IF side = "buy" THEN order_book.asks ELSE order_book.bids

\* The marketability test of a limit order against the best prices.
marketable(s, t, price, bid, ask) ==
    IF t = "limit"
    THEN (s = "buy" /\ RLe(ask, price)) \/ (s = "sell" /\ RLe(price, bid))
    ELSE TRUE

\* The limit test applied to buy orders only.
beyond_limit_buy_only(s, t, price, limit) ==
    t = "limit" /\ s = "buy" /\ RLt(limit, price)

\* The walk's limit test: the level's price is beyond the limit.
beyond_limit(s, t, price, limit) ==
    /\ t = "limit"
    /\ (s = "buy" /\ RLt(limit, price)) \/ (s = "sell" /\ RLt(price, limit))

\* The walk taking a level whole, whatever is left of the order.
executable_whole_level(s, price, quantity, remaining) ==
    <<quantity, RMul(price, quantity)>>

\* What the walk takes at a level <<price, quantity>> with `remaining` quote
\* left: <<executable_base, executable_quote>>.
executable(s, price, quantity, remaining) ==
    IF s = "buy"
    THEN LET executable_quote == RMin(remaining, RMul(price, quantity))
         IN  <<RDiv(executable_quote, price), executable_quote>>
    ELSE LET executable_base == RMin(RDiv(remaining, price), quantity)
         IN  <<executable_base, RMul(executable_base, price)>>

\* A walk that never finds the order filled.
filled_never(remaining) == FALSE

\* The exit test with a threshold of 1 in place of 0.01.
filled_loose(remaining) == RLe(remaining, One)

\* The walk's exit test after a level.
filled(remaining) == RLe(remaining, fill_threshold)

\* The partial-fill test with <= for the upper comparison.
is_partial_nonstrict(executed, quantity) ==
    RLt(Zero, executed) /\ RLe(executed, quantity)

\* The partial-fill test after the walk.
is_partial(executed, quantity) == RLt(Zero, executed) /\ RLt(executed, quantity)

\* The rate the fee is charged at.
fee_rate_for(profile, etype) == IF etype = "taker" THEN profile.taker ELSE profile.maker

\* The local variables of a call that has not begun.
FreshLocals ==
    /\ best_bid = Zero /\ best_ask = Zero /\ mid_price = Zero
    /\ is_marketable = FALSE
    /\ level = 1
    /\ executed_quantity_base = Zero
    /\ executed_quantity_quote = Zero
    /\ remaining_quantity_quote = Zero
    /\ execution_type = "fail"
    /\ warnings = << >>
    /\ average_price = Zero /\ slippage_pct = Zero
    /\ fee_rate = Zero /\ fee_paid = Zero /\ impact_pct_sq = Zero
    /\ fills = << >>
    /\ result = NoResult

FreshCall == pc = "start" /\ FreshLocals

\* No call made on a model directly.
NoCall == [op |-> "none", args |-> << >>, ret |-> Returns(Zero)]

\* ExecutionEngine.__init__: a new engine, on which no call was made yet,
\* with its models as their constructors leave them.
NewEngine ==
    /\ adv = default_adv
    /\ earlier = << >>
    /\ ncalls = 1
    /\ direct = NoCall
    /\ adv_before = default_adv
    /\ nops = 0
    /\ NewHandler
    /\ NewSimulation

Init ==
    /\ side \in {"buy", "sell", "hold"}
    /\ order_type \in {"market", "limit", "stop"}
    /\ \/ /\ side \in {"buy", "sell"} /\ order_type \in {"market", "limit"}
          /\ order_quantity \in Quantities
          /\ order_book \in Books(side)
          /\ order_price \in OrderPrices(order_type)
          /\ user_fee_profile \in FeeProfiles
       \/ /\ order_quantity = One
          /\ order_book \in BrokenBooks \cup {PlainBook}
          /\ order_price = R(16, 8)
          /\ user_fee_profile = NoProfile
    /\ latency = 0
    /\ snapshot = order_book
    /\ call = args
    /\ FreshCall
    /\ NewEngine

\* Lines 57-59: validation fails and the error result is returned.
RejectInvalid ==
    /\ pc = "start"
    /\ ~_validate_inputs(side, order_type, order_quantity, order_book, order_price)
    /\ result' = _create_error_result("Invalid input parameters")
    /\ pc' = "done"
    /\ UNCHANGED <<args, locals, adv, snapshot, outside>>

\* Lines 61-97 and 128-132: the default profile, the reference prices, the
\* marketability test and the initial values of the walk.
Begin ==
    /\ \/ /\ pc = "start"
          /\ _validate_inputs(side, order_type, order_quantity, order_book, order_price)
          /\ ~(latency > 0)
       \/ pc = "stale"
    /\ user_fee_profile' =
           IF user_fee_profile = NoProfile THEN default_fee_profile ELSE user_fee_profile
    /\ LET bid == IF order_book.bids # << >> THEN order_book.bids[1][1] ELSE Zero
           ask == IF order_book.asks # << >> THEN order_book.asks[1][1] ELSE Zero
           m == marketable(side, order_type, order_price, bid, ask)
       IN  /\ best_bid' = bid
           /\ best_ask' = ask
           /\ mid_price' = RDiv(RAdd(bid, ask), R(2, 1))
           /\ is_marketable' = m
           /\ execution_type' =
                  IF m THEN "taker" ELSE IF order_type = "limit" THEN "maker" ELSE "fail"
           /\ warnings' =
                  IF ~m /\ order_type = "limit"
                  THEN <<"Limit order placed but not immediately executed">>
                  ELSE << >>
           /\ pc' = IF m /\ Len(book_side) > 0 THEN "walk" ELSE "compose"
    /\ executed_quantity_base' = Zero
    /\ executed_quantity_quote' = Zero
    /\ remaining_quantity_quote' = order_quantity
    /\ level' = 1
    /\ UNCHANGED <<side, order_type, order_quantity, order_book, order_price,
                   latency, average_price, slippage_pct, fee_rate, fee_paid, impact_pct_sq,
                   fills, result, adv, snapshot, outside>>

\* Lines 99-106: a limit order meets a level beyond its limit and the walk
\* ends.
StopAtLimit ==
    /\ pc = "walk"
    /\ level <= Len(book_side)
    /\ beyond_limit(side, order_type, book_side[level][1], order_price)
    /\ pc' = "compose"
    /\ UNCHANGED <<args, locals, result, adv, snapshot, outside>>

\* Lines 99-126: one level of the walk.
FillLevel ==
    /\ pc = "walk"
    /\ level <= Len(book_side)
    /\ ~beyond_limit(side, order_type, book_side[level][1], order_price)
    /\ LET price == book_side[level][1]
           quantity == book_side[level][2]
           e == executable(side, price, quantity, remaining_quantity_quote)
           remaining == RSub(remaining_quantity_quote, e[2])
       IN  /\ executed_quantity_base' = RAdd(executed_quantity_base, e[1])
           /\ executed_quantity_quote' = RAdd(executed_quantity_quote, e[2])
           /\ remaining_quantity_quote' = remaining
           /\ fills' = Append(fills, [level |-> level, price |-> price,
                                      quantity |-> quantity, base |-> e[1],
                                      quote |-> e[2]])
           /\ IF filled(remaining) \/ level = Len(book_side)
              THEN pc' = "compose" /\ level' = level
              ELSE pc' = "walk" /\ level' = level + 1
    /\ UNCHANGED <<args, best_bid, best_ask, mid_price, is_marketable,
                   execution_type, warnings, average_price, slippage_pct,
                   fee_rate, fee_paid, impact_pct_sq, result, adv, snapshot, outside>>

\* Lines 134-141: nothing was executed and the error result is returned.
ReturnNoExecution ==
    /\ pc = "compose"
    /\ RLe(executed_quantity_quote, Zero)
    /\ result' = _create_error_result(
                     "No execution: insufficient liquidity or non-marketable limit order")
    /\ pc' = "done"
    /\ UNCHANGED <<args, locals, adv, snapshot, outside>>

\* Lines 134-179: the classification, the three costs, the warnings and the
\* rounded result; an exception of the impact model leaves the call.
Compose ==
    /\ pc = "compose"
    /\ ~RLe(executed_quantity_quote, Zero)
    /\ LET partial == is_partial(executed_quantity_quote, order_quantity)
           etype == IF partial THEN "partial" ELSE execution_type
           w1 == IF partial THEN Append(warnings, "Order partially filled") ELSE warnings
           avg == IF RLt(Zero, executed_quantity_base)
                  THEN RDiv(executed_quantity_quote, executed_quantity_base)
                  ELSE Zero
           slip == calculate_slippage(side, mid_price, avg, executed_quantity_quote)
           impact == calculate_impact(side, executed_quantity_quote, order_book, "default")
           rate == fee_rate_for(user_fee_profile, etype)
           fee == calculate_fee(executed_quantity_quote, rate, etype)
           w2 == IF impact_exceeds_one(impact.value)
                 THEN Append(w1, "Large market impact") ELSE w1
       IN  /\ execution_type' = etype
           /\ average_price' = avg
           /\ slippage_pct' = slip
           /\ adv' = adv_after_impact(adv, "default", executed_quantity_quote)
           /\ IF impact.exception # "none"
              THEN /\ warnings' = w1
                   /\ UNCHANGED <<impact_pct_sq, fee_rate, fee_paid>>
                   /\ result' = Raised(impact.exception)
                   /\ pc' = "raised"
              ELSE /\ warnings' = w2
                   /\ impact_pct_sq' = impact.value
                   /\ fee_rate' = rate
                   /\ fee_paid' = fee
                   /\ result' =
                          [executed_quantity_base |-> round(executed_quantity_base, 8),
                           executed_quantity_quote |-> round(executed_quantity_quote, 2),
                           average_price |-> round(avg, 2),
                           slippage_pct |-> round(slip, 2),
                           market_impact_pct |-> round_impact(impact.value),
                           fee_paid |-> round(fee, 2),
                           execution_type |-> etype,
                           warnings |-> w2,
                           exception |-> "none"]
                   /\ pc' = "done"
    /\ UNCHANGED <<args, best_bid, best_ask, mid_price, is_marketable, level,
                   executed_quantity_base, executed_quantity_quote,
                   remaining_quantity_quote, fills, snapshot, outside>>

Next ==
    \/ RejectInvalid
    \/ Begin
    \/ StopAtLimit
    \/ FillLevel
    \/ ReturnNoExecution
    \/ Compose

Spec == Init /\ [][Next]_vars

-----------------------------------------------------------------------------
(* Several calls, one after another, on the same engine.  The engine object *)
(* holds the three models; of their attributes only impact_model.adv is     *)
(* read by a call.                                                          *)

\* Calls made on one engine.
MaxCalls == 3

\* Sorted, uncrossed snapshots with the same quantities on both sides: two
\* levels of one unit, a best level without quantity, and a top of the book
\* without quantity.
CallBooks ==
    {Book(Bids(FALSE, 0, t), Asks(0, t)) : t \in {<<One, One>>, <<Zero, One>>}}
        \cup {Book(Bids(FALSE, TopLevels, <<One>>), Asks(TopLevels, <<One>>))}

\* order_quantity: 0 is invalid.
CallQuantities == {Zero, R(4, 1000), One, R(10, 1)}

\* Market orders of both sides, and buy limit orders at the best ask price.
CallOrders ==
    {<<"buy", "market", None>>, <<"sell", "market", None>>,
     <<"buy", "limit", AskPrice(1)>>}

\* The arguments of a call, without latency.
CallInputs ==
    {<<o[1], o[2], q, b, o[3], NoProfile, 0>> :
        o \in CallOrders, q \in CallQuantities, b \in CallBooks}

\* What a finished call leaves to compare: its arguments, what it returned
\* (or raised), and the two percentages before rounding.
Outcome ==
    [args |-> call, result |-> result, slippage_pct |-> slippage_pct,
     impact_pct_sq |-> impact_pct_sq]

InitCalls ==
    /\ \E c \in CallInputs :
           /\ side = c[1] /\ order_type = c[2] /\ order_quantity = c[3]
           /\ order_book = c[4] /\ order_price = c[5] /\ user_fee_profile = c[6]
           /\ latency = c[7]
    /\ snapshot = order_book
    /\ call = args
    /\ FreshCall
    /\ NewEngine

\* The caller, having a result, calls simulate_order_execution again on the
\* same engine: new arguments and new local variables; the engine's
\* attributes stay as the calls before left them.
CallAgain ==
    /\ pc \in {"done", "raised"}
    /\ ncalls < MaxCalls
    /\ earlier' = Append(earlier, Outcome)
    /\ ncalls' = ncalls + 1
    /\ \E c \in CallInputs :
           /\ side' = c[1] /\ order_type' = c[2] /\ order_quantity' = c[3]
           /\ order_book' = c[4] /\ order_price' = c[5] /\ user_fee_profile' = c[6]
           /\ latency' = c[7]
           /\ snapshot' = c[4]
           /\ call' = c
    /\ pc' = "start"
    /\ best_bid' = Zero /\ best_ask' = Zero /\ mid_price' = Zero
    /\ is_marketable' = FALSE
    /\ level' = 1
    /\ executed_quantity_base' = Zero
    /\ executed_quantity_quote' = Zero
    /\ remaining_quantity_quote' = Zero
    /\ execution_type' = "fail"
    /\ warnings' = << >>
    /\ average_price' = Zero /\ slippage_pct' = Zero
    /\ fee_rate' = Zero /\ fee_paid' = Zero /\ impact_pct_sq' = Zero
    /\ fills' = << >>
    /\ result' = NoResult
    /\ UNCHANGED <<adv, direct, adv_before, nops, feed, simulation>>

NextCalls == Next \/ CallAgain

SpecCalls == InitCalls /\ [][NextCalls]_vars

-----------------------------------------------------------------------------
(* ExecutionEngine._apply_latency_simulation: a call with latency > 0       *)
(* walks a perturbed copy of the caller's order book.                       *)

\* Values of random.uniform(0, 0.5), drawn for a price, and of
\* random.uniform(-0.5, 0.5), drawn for a quantity; the upper end is not
\* drawn.
PriceDraws == {Zero, R(1, 4)}

QuantityDraws == {R(-1, 2), Zero, R(1, 4)}

\* One pair of draws for each level of a side.
Draws(n) == [1..n -> PriceDraws \X QuantityDraws]

\* copy.copy in place of copy.deepcopy: a new dict holding the caller's lists.
shallowcopy(obj) == [value |-> obj, shares |-> {"bids", "asks"}]

\* copy.deepcopy: an equal object that shares no part with the original.
deepcopy(obj) == [value |-> obj, shares |-> {}]

\* The factor without its cap.
modification_factor_uncapped(lat) == R(lat, 1000)

\* min(latency / 1000, 0.1)
modification_factor(lat) == RMin(R(lat, 1000), R(1, 10))

\* The quantity floor of the perturbation.
min_quantity == R(1, 10000)

\* One iteration of the loop: the level [price, quantity] of book side `key`
\* after the perturbation with the draws <<for the price, for the quantity>>.
perturbed_level(key, lv, factor, draw) ==
    LET price == lv[1]
        quantity == lv[2]
        direction == IF key = "bids" THEN -1 ELSE 1
        price_change == RMul(RMul(RMul(price, factor), draw[1]), R(direction, 1))
        new_price == RAdd(price, price_change)
        qty_change == RMul(RMul(quantity, factor), draw[2])
        new_quantity == RMax(min_quantity, RAdd(quantity, qty_change))
    IN  <<new_price, new_quantity>>

\* _apply_latency_simulation(order_book, latency) with the draws of its run:
\* the book it returns, and the caller's object as the writes to the copy
\* leave it.
_apply_latency_simulation(book, lat, draws) ==
    LET copy == deepcopy(book)
        factor == modification_factor(lat)
        stale_book ==
            [copy.value EXCEPT
                !.bids = [i \in 1..Len(@) |->
                             perturbed_level("bids", @[i], factor, draws.bids[i])],
                !.asks = [i \in 1..Len(@) |->
                             perturbed_level("asks", @[i], factor, draws.asks[i])]]
    IN  [returned |-> stale_book,
         original |->
             [book EXCEPT
                 !.bids = IF "bids" \in copy.shares THEN stale_book.bids ELSE @,
                 !.asks = IF "asks" \in copy.shares THEN stale_book.asks ELSE @]]

\* Lines 61-63: the inputs are valid and latency > 0; order_book is rebound
\* to the perturbed copy.
ApplyLatency ==
    /\ pc = "start"
    /\ _validate_inputs(side, order_type, order_quantity, order_book, order_price)
    /\ latency > 0
    /\ \E db \in Draws(Len(order_book.bids)), da \in Draws(Len(order_book.asks)) :
           LET r == _apply_latency_simulation(order_book, latency,
                                              [bids |-> db, asks |-> da])
           IN  /\ order_book' = r.returned
               /\ snapshot' = r.original
    /\ pc' = "stale"
    /\ UNCHANGED <<side, order_type, order_quantity, order_price, user_fee_profile,
                   latency, locals, result, adv, outside>>

\* latency in milliseconds: none, below and above the cap of the factor.
Latencies == {0, 50, 500}

\* A book whose adjacent levels are 0.125 apart at prices near 8, which is
\* less than 2 % of the price: bids 7.75 and 7.625, asks 8.0 and 8.125, two
\* units at each level.
TightBook ==
    Book(<<<<R(31, 4), R(2, 1)>>, <<R(61, 8), R(2, 1)>>>>,
         <<<<R(8, 1), R(2, 1)>>, <<R(65, 8), R(2, 1)>>>>)

\* One bid level and two ask levels for an order of side s; the bid level of
\* a buy order, which does not walk the bids, is with or without quantity.
LatencyBooks(s) ==
    {Book(Bids(FALSE, 0, <<q>>), Asks(0, <<One, One>>)) :
        q \in IF s = "buy" THEN {Zero, One} ELSE {One}}
    \cup {TightBook}

\* Market orders, a buy limit order above the best ask and a sell limit order
\* above the best bid.
LatencyOrders ==
    {<<"buy", "market", None>>, <<"sell", "market", None>>,
     <<"buy", "limit", AskPrice(2)>>, <<"sell", "limit", AskPrice(1)>>}

InitLatency ==
    /\ \E o \in LatencyOrders :
           side = o[1] /\ order_type = o[2] /\ order_price = o[3]
    /\ order_quantity \in {Zero, One, R(10, 1)}
    /\ order_book \in LatencyBooks(side)
    /\ user_fee_profile = NoProfile
    /\ latency \in Latencies
    /\ snapshot = order_book
    /\ call = args
    /\ FreshCall
    /\ NewEngine

NextLatency == Next \/ ApplyLatency

SpecLatency == InitLatency /\ [][NextLatency]_vars

-----------------------------------------------------------------------------
(* The models called directly: MakerTakerFeeModel.calculate_fee,            *)
(* SlippageModel.calculate_slippage, MarketImpactModel.calculate_impact and *)
(* MarketImpactModel.update_adv, on the models of an engine that is not in  *)
(* a call (pc = "idle").                                                    *)

\* Direct calls made on the models of one engine.
MaxOps == 3

\* order_amount and fee_rate of calculate_fee: negative, 0, positive.
Amounts == {R(-1, 1), Zero, R(1, 2), R(2000, 1)}

Rates == {R(-1, 2), Zero, R(8, 100), One}

Classifications == {"maker", "taker", "partial"}

\* mid_price and executed_price of calculate_slippage.
MidPrices == {R(-1, 1), Zero, R(2, 1)}

ExecutedPrices == {R(-1, 1), Zero, R(3, 2), R(2, 1), R(5, 2)}

\* order_size of calculate_impact.
Sizes == {One, R(4, 1)}

Symbols == {"BTC-USDT", "SOL-USDT", "default"}

\* new_adv of update_adv: negative, 0, positive.
AdvValues == {-5, 0, 1000000, 400000000}

\* Snapshots for calculate_impact: a spread of 1 cent with balanced and with
\* unbalanced quantities, a wide spread, a crossed book, a book without
\* quantity at the top, and a book without bids.
ImpactBooks ==
    {Book(<<<<R(199, 100), One>>>>, <<<<R(2, 1), One>>>>),
     Book(<<<<R(199, 100), R(3, 1)>>>>, <<<<R(2, 1), One>>>>),
     PlainBook,
     Book(Bids(TRUE, 0, <<One>>), Asks(0, <<One>>)),
     Book(Bids(FALSE, 0, <<Zero>>), Asks(0, <<Zero>>)),
     Book(<< >>, Asks(0, <<One>>))}

\* The engine outside a call.
IdleEngine ==
    /\ side = "buy" /\ order_type = "market" /\ order_quantity = One
    /\ order_book = PlainBook /\ order_price = None
    /\ user_fee_profile = NoProfile /\ latency = 0
    /\ snapshot = order_book
    /\ call = args
    /\ pc = "idle"
    /\ FreshLocals

\* Either one call of simulate_order_execution, or direct calls.
InitModels ==
    /\ Init \/ IdleEngine
    /\ NewEngine

engine == <<args, snapshot, pc, locals, result, call, earlier, ncalls>>

CallCalculateFee ==
    /\ pc = "idle" /\ nops < MaxOps
    /\ \E amount \in Amounts, rate \in Rates, etype \in Classifications :
           direct' = [op |-> "calculate_fee", args |-> <<amount, rate, etype>>,
                      ret |-> Returns(calculate_fee(amount, rate, etype))]
    /\ nops' = nops + 1
    /\ adv_before' = adv
    /\ UNCHANGED <<engine, adv, feed, simulation>>

CallCalculateSlippage ==
    /\ pc = "idle" /\ nops < MaxOps
    /\ \E s \in {"buy", "sell"}, mid \in MidPrices, executed_price \in ExecutedPrices :
           direct' = [op |-> "calculate_slippage",
                      args |-> <<s, mid, executed_price, One>>,
                      ret |-> Returns(calculate_slippage(s, mid, executed_price, One))]
    /\ nops' = nops + 1
    /\ adv_before' = adv
    /\ UNCHANGED <<engine, adv, feed, simulation>>

CallCalculateImpact ==
    /\ pc = "idle" /\ nops < MaxOps
    /\ \E s \in {"buy", "sell"}, order_size \in Sizes, book \in ImpactBooks,
          symbol \in Symbols :
           /\ direct' = [op |-> "calculate_impact",
                         args |-> <<s, order_size, book, symbol>>,
                         ret |-> calculate_impact(s, order_size, book, symbol)]
           /\ adv' = adv_after_impact(adv, symbol, order_size)
    /\ nops' = nops + 1
    /\ adv_before' = adv
    /\ UNCHANGED <<engine, feed, simulation>>

CallUpdateAdv ==
    /\ pc = "idle" /\ nops < MaxOps
    /\ \E symbol \in Symbols, new_adv \in AdvValues :
           /\ direct' = [op |-> "update_adv", args |-> <<symbol, new_adv>>,
                         ret |-> Returns(Zero)]
           /\ adv' = update_adv(adv, symbol, new_adv)
    /\ nops' = nops + 1
    /\ adv_before' = adv
    /\ UNCHANGED <<engine, feed, simulation>>

NextModels ==
    \/ Next
    \/ CallCalculateFee
    \/ CallCalculateSlippage
    \/ CallCalculateImpact
    \/ CallUpdateAdv

SpecModels == InitModels /\ [][NextModels]_vars

-----------------------------------------------------------------------------
(* SpecFeed: the thread of the websocket delivers messages to on_message   *)
(* while another thread calls get_current_order_book.                      *)

MaxMessages == 3

MaxReads == 2

\* What the handler has no access to.
simulator == <<args, snapshot, pc, locals, result, adv, call, earlier, ncalls,
               direct, adv_before, nops, simulation>>

\* on_message up to the lock: json.loads(message).  Text that is not JSON
\* raises, and the except clause logs the error.
ReceiveMessage ==
    /\ ws_thread.pc = "idle" /\ ws_thread.received < MaxMessages
    /\ \E message \in Messages :
           ws_thread' =
               IF message.json
               THEN [pc |-> "parsed", data |-> message, i |-> 0,
                     received |-> ws_thread.received + 1]
               ELSE [IdleWriter EXCEPT !.received = ws_thread.received + 1]
    /\ UNCHANGED <<handler, reader, simulator>>

\* with self.lock: self.data_buffer.append(data), and the test
\* 'asks' in data and 'bids' in data.
LockForMessage ==
    /\ ws_thread.pc = "parsed"
    /\ handler.lock = "free"
    /\ handler' = [handler EXCEPT !.lock = "ws_thread",
                                  !.data_buffer = Append(@, ws_thread.data)]
    /\ ws_thread' = [ws_thread EXCEPT
                         !.pc = IF {"asks", "bids"} \subseteq ws_thread.data.keys
                                THEN "bids" ELSE "unlock",
                         !.i = 1]
    /\ UNCHANGED <<reader, simulator>>

\* One pass of the loop over data[key]; an exception leaves the with block,
\* which releases the lock, and the except clause logs the error.
ProcessEntry(key) ==
    LET done == process_entry(handler.order_book[key], ws_thread.data[key][ws_thread.i])
    IN  IF done.exception # "none"
        THEN /\ handler' = [handler EXCEPT !.lock = "free"]
             /\ ws_thread' = [IdleWriter EXCEPT !.received = ws_thread.received]
        ELSE /\ handler' = [handler EXCEPT !.order_book[key] = done.value]
             /\ ws_thread' = [ws_thread EXCEPT !.i = @ + 1]

\* for price, size in data['bids']
ProcessBid ==
    /\ ws_thread.pc = "bids"
    /\ ws_thread.i <= Len(ws_thread.data.bids)
    /\ ProcessEntry("bids")
    /\ UNCHANGED <<reader, simulator>>

\* The loop over data['bids'] is exhausted.
BidsDone ==
    /\ ws_thread.pc = "bids"
    /\ ws_thread.i > Len(ws_thread.data.bids)
    /\ ws_thread' = [ws_thread EXCEPT !.pc = "asks", !.i = 1]
    /\ UNCHANGED <<handler, reader, simulator>>

\* for price, size in data['asks']
ProcessAsk ==
    /\ ws_thread.pc = "asks"
    /\ ws_thread.i <= Len(ws_thread.data.asks)
    /\ ProcessEntry("asks")
    /\ UNCHANGED <<reader, simulator>>

\* The end of the with block of on_message.
UnlockAfterMessage ==
    /\ \/ ws_thread.pc = "unlock"
       \/ ws_thread.pc = "asks" /\ ws_thread.i > Len(ws_thread.data.asks)
    /\ handler' = [handler EXCEPT !.lock = "free"]
    /\ ws_thread' = [IdleWriter EXCEPT !.received = ws_thread.received]
    /\ UNCHANGED <<reader, simulator>>

\* get_current_order_book: with self.lock, called from outside the handler
\* or by _add_mock_data at its last line.  threading.Lock is not reentrant:
\* the thread that holds it waits like any other.
ReaderLock ==
    /\ \/ reader.pc = "idle" /\ reader.reads < MaxReads
       \/ reader.pc = "mock"
    /\ handler.lock = "free"
    /\ handler' = [handler EXCEPT !.lock = "reader"]
    /\ reader' = [reader EXCEPT
                      !.pc = "locked",
                      !.caller = IF reader.pc = "mock" THEN "_add_mock_data" ELSE "outside"]
    /\ UNCHANGED <<ws_thread, simulator>>

\* get_current_order_book: the two sorts and the return, which releases the
\* lock.  seen is the history of what had been received by then.
\* Returned into _add_mock_data, the value is assigned to latest_data, and
\* _add_mock_data and connect return.
ReaderReturn ==
    /\ reader.pc = "locked"
    /\ reader' = [pc |-> "idle",
                  caller |-> "outside",
                  returned |-> current_order_book(handler.order_book),
                  seen |-> Len(handler.data_buffer),
                  reads |-> reader.reads + 1]
    /\ handler' = [handler EXCEPT
                       !.lock = "free",
                       !.latest_data = IF reader.caller = "_add_mock_data"
                                       THEN current_order_book(handler.order_book)
                                       ELSE @]
    /\ UNCHANGED <<ws_thread, simulator>>

InitFeed == IdleEngine /\ NewEngine

NextFeed ==
    \/ ReceiveMessage
    \/ LockForMessage
    \/ ProcessBid
    \/ BidsDone
    \/ ProcessAsk
    \/ UnlockAfterMessage
    \/ ReaderLock
    \/ ReaderReturn

SpecFeed == InitFeed /\ [][NextFeed]_vars

-----------------------------------------------------------------------------
(* WebSocketHandler.connect: the caller's thread, which is the reader's,   *)
(* and the thread of the connection.                                       *)

\* connect, lines 38-54: the WebSocketApp is made and its thread started.
Connect ==
    /\ reader.pc = "idle" /\ handler.ws = "None"
    /\ handler' = [handler EXCEPT !.ws = "WebSocketApp"]
    /\ reader' = [reader EXCEPT !.pc = "waiting"]
    /\ UNCHANGED <<ws_thread, simulator>>

\* on_open, called by the thread of the connection when the connection is
\* established, at any time after its start.
on_open ==
    /\ handler.ws = "WebSocketApp" /\ ~handler.connected
    /\ ws_thread.pc = "idle"
    /\ handler' = [handler EXCEPT !.connected = TRUE]
    /\ UNCHANGED <<ws_thread, reader, simulator>>

\* The wait loop of connect is left: the connection is established or the
\* ten seconds are over.
WaitOver ==
    /\ reader.pc = "waiting"
    /\ reader' = [reader EXCEPT !.pc = "waited"]
    /\ UNCHANGED <<handler, ws_thread, simulator>>

\* if not self.connected, with the connection established: connect returns.
ConnectReturn ==
    /\ reader.pc = "waited" /\ handler.connected
    /\ reader' = [reader EXCEPT !.pc = "idle"]
    /\ UNCHANGED <<handler, ws_thread, simulator>>

\* if not self.connected: self._add_mock_data()
CallAddMockData ==
    /\ reader.pc = "waited" /\ ~handler.connected
    /\ reader' = [reader EXCEPT !.pc = "_add_mock_data"]
    /\ UNCHANGED <<handler, ws_thread, simulator>>

\* _add_mock_data: with self.lock, and the two assignments.  The thread
\* holds the lock when it reaches the call of get_current_order_book.
_add_mock_data ==
    /\ reader.pc = "_add_mock_data"
    /\ handler.lock = "free"
    /\ handler' = [handler EXCEPT !.lock = "reader", !.order_book = mock_order_book]
    /\ reader' = [reader EXCEPT !.pc = "mock"]
    /\ UNCHANGED <<ws_thread, simulator>>

\* on_message, called by the thread of an established connection.
on_message ==
    /\ handler.connected
    /\ ReceiveMessage

InitConnect == IdleEngine /\ NewEngine

NextConnect ==
    \/ Connect
    \/ on_open
    \/ WaitOver
    \/ ConnectReturn
    \/ CallAddMockData
    \/ _add_mock_data
    \/ ReaderLock
    \/ ReaderReturn
    \/ on_message
    \/ LockForMessage
    \/ ProcessBid
    \/ BidsDone
    \/ ProcessAsk
    \/ UnlockAfterMessage

\* Every thread that can take a step takes one at last: the threads are
\* scheduled by the operating system.
SpecConnect == InitConnect /\ [][NextConnect]_vars /\ WF_vars(NextConnect)

-----------------------------------------------------------------------------
(* SpecWarnings: one call on an engine whose impact model may have been    *)
(* given a small ADV before, so that the impact reaches whole percents.    *)

\* new_adv of the update before the call.
SmallAdvs == {1, 100}

\* Snapshots with up to 19 quote units on the side the order walks.
WarningBooks(s) ==
    {Book(Bids(FALSE, 0, IF s = "sell" THEN ct ELSE <<One>>),
          Asks(0, IF s = "sell" THEN <<One>> ELSE ct)) :
        ct \in {<<One>>, <<R(8, 1)>>, <<One, R(8, 1)>>}}

WarningQuantities == {Zero, One, R(16, 1), R(20, 1)}

InitWarnings ==
    /\ side \in {"buy", "sell"}
    /\ order_type \in {"market", "limit"}
    /\ order_quantity \in WarningQuantities
    /\ order_book \in WarningBooks(side)
    /\ order_price \in (IF order_type = "market" THEN {None} ELSE LimitPrices)
    /\ user_fee_profile = NoProfile
    /\ latency = 0
    /\ snapshot = order_book
    /\ call = args
    /\ FreshCall
    /\ NewEngine

\* engine.impact_model.update_adv("default", new_adv) before the call.
LowerAdv ==
    /\ pc = "start" /\ nops = 0
    /\ \E new_adv \in SmallAdvs :
           /\ direct' = [op |-> "update_adv", args |-> <<"default", new_adv>>,
                         ret |-> Returns(Zero)]
           /\ adv' = update_adv(adv, "default", new_adv)
    /\ nops' = nops + 1
    /\ adv_before' = adv
    /\ UNCHANGED <<engine, feed, simulation>>

NextWarnings == Next \/ LowerAdv

SpecWarnings == InitWarnings /\ [][NextWarnings]_vars

-----------------------------------------------------------------------------
(* SpecEstimate: after a call of the engine, the estimate of the slippage  *)
(* model of that engine for the same side, quantity and snapshot.          *)

EstimateAfterCall ==
    /\ pc \in {"done", "raised"} /\ nops = 0
    /\ side \in {"buy", "sell"}
    /\ {"bids", "asks"} \subseteq order_book.keys
    /\ direct' = [op |-> "estimate_slippage",
                  args |-> <<side, order_quantity, order_book>>,
                  ret |-> Returns(estimate_slippage(side, order_quantity, order_book))]
    /\ nops' = nops + 1
    /\ adv_before' = adv
    /\ UNCHANGED <<engine, adv, feed, simulation>>

NextEstimate == Next \/ EstimateAfterCall

SpecEstimate == Init /\ [][NextEstimate]_vars

-----------------------------------------------------------------------------
(* SpecFees: calls of MakerTakerFeeModel.estimate in rule-based mode.      *)

\* order_size, around the three thresholds of the discount.
OrderSizes ==
    {One, R(10000, 1), R(10001, 1), R(100000, 1), R(100001, 1), R(1000000, 1),
     R(1000001, 1)}

\* trading_volume, around the thresholds of the fee tiers.
Volumes == {-1, 0, 9999, 10000, 999999, 1000000, 100000000, 200000000}

UserProfiles ==
    {NoneProfile, Profile({}, "", 0), Profile({"maker", "taker"}, "", 0)}
    \cup {Profile({"vip_tier"}, v, 0) : v \in {"institutional", "market_maker", "gold"}}
    \cup {Profile({"trading_volume"}, "", n) : n \in Volumes}
    \cup {Profile({"vip_tier", "trading_volume"}, v, n) :
              v \in {"market_maker", "gold"}, n \in {0, 1000000}}

EstimateBooks == {PlainBook, Book(<< >>, << >>)}

CallEstimateFee ==
    /\ pc = "idle" /\ nops < MaxOps
    /\ \E order_size \in OrderSizes, s \in {"buy", "sell"}, book \in EstimateBooks,
          t \in {"market", "limit"}, profile \in UserProfiles :
           direct' = [op |-> "estimate",
                      args |-> <<order_size, s, book, t, profile>>,
                      ret |-> Returns(estimate(order_size, s, book, t, profile))]
    /\ nops' = nops + 1
    /\ adv_before' = adv
    /\ UNCHANGED <<engine, adv, feed, simulation>>

InitFees == IdleEngine /\ NewEngine

NextFees == CallEstimateFee

SpecFees == InitFees /\ [][NextFees]_vars

-----------------------------------------------------------------------------
(* The claims.  Each is stated in its own words about the arguments, the   *)
(* walk's history and the result, not through the operators of the model.  *)

Returned == pc = "done"

\* The call has finished its walk: it is composing, has returned or raised.
Walked == pc \in {"compose", "done", "raised"}

\* The levels opposite to the order.
Contra == IF side = "buy" THEN order_book.asks ELSE order_book.bids

\* The inputs the specification calls invalid.
InvalidCall ==
    \/ side \notin {"buy", "sell"}
    \/ order_type \notin {"market", "limit"}
    \/ order_quantity[1] <= 0
    \/ "bids" \notin order_book.keys
    \/ "asks" \notin order_book.keys
    \/ order_book.bids = << >>
    \/ order_book.asks = << >>
    \/ (order_type = "limit" /\ (order_price = None \/ order_price[1] <= 0))

ValidCall == ~InvalidCall

\* A valid order that can execute at once.
MarketableCall ==
    /\ ValidCall
    /\ \/ order_type = "market"
       \/ side = "buy" /\ RLe(order_book.asks[1][1], order_price)
       \/ side = "sell" /\ RLe(order_price, order_book.bids[1][1])

\* The price of a level is beyond the limit of a limit order.
BeyondLimit(price) ==
    /\ order_type = "limit"
    /\ IF side = "buy" THEN RLt(order_price, price) ELSE RLt(price, order_price)

\* sum of price * quantity over the first n levels
RECURSIVE Notional(_, _)
Notional(levels, n) ==
    IF n = 0 THEN Zero
    ELSE RAdd(Notional(levels, n - 1), RMul(levels[n][1], levels[n][2]))

ResultNumbers ==
    <<result.executed_quantity_base, result.executed_quantity_quote,
      result.average_price, result.slippage_pct, result.market_impact_pct,
      result.fee_paid>>

\* C1: simulate_order_execution never raises, whatever the order and the
\* snapshot, and every numeric degeneracy of the cost models falls back to a
\* default.  (Violated: the liquidity factor divides by the sum of the top-5
\* quantities of both sides.)
C1_NeverRaises == pc # "raised" /\ result.exception = "none"

\* C2: a call whose validation fails returns execution_type "fail" with the
\* six numeric fields 0 and a non-empty warnings list; in particular a buy
\* market order on a book with empty asks.
C2_InvalidInputFails ==
    (InvalidCall /\ pc # "start") =>
        /\ pc = "done"
        /\ result.execution_type = "fail"
        /\ \A i \in 1..6 : ResultNumbers[i] = Zero
        /\ result.warnings # << >>

C2_Witness ==
    /\ Returned
    /\ side = "buy" /\ order_type = "market"
    /\ order_book.asks = << >> /\ order_book.bids # << >>
    /\ result.execution_type = "fail"

ReachableLiquidity ==
    \E i \in 1..Len(Contra) :
        /\ RLt(Zero, Contra[i][2])
        /\ \A j \in 1..i : ~BeyondLimit(Contra[j][1])
        /\ i = 1 \/ RLt(R(1, 100), order_quantity)

\* C4 as claimed: a valid marketable order on a contra side with at least
\* one level reports executed_quantity_quote > 0, also with levels of
\* quantity 0 and with a quantity below the rounding step.
C4_MarketableExecutes ==
    (Returned /\ MarketableCall /\ Len(Contra) >= 1) =>
        RLt(Zero, result.executed_quantity_quote)

\* C4 amended: a valid marketable order executes a positive quote, before
\* rounding, when the walk reaches a level with quantity; a result is then
\* not a fail, and it reports executed_quantity_quote > 0 when the executed
\* quote exceeds 0.005.
C4_ReachableLiquidityExecutes ==
    (Walked /\ MarketableCall /\ ReachableLiquidity) =>
        /\ RLt(Zero, executed_quantity_quote)
        /\ Returned => result.execution_type \in {"taker", "partial"}
        /\ (Returned /\ RLt(R(5, 1000), executed_quantity_quote)) =>
               RLt(Zero, result.executed_quantity_quote)

C4_Witness ==
    /\ Returned /\ MarketableCall
    /\ Contra[1][2] = Zero
    /\ RLt(Zero, result.executed_quantity_quote)

\* C5 as claimed: the execution_type of a result is one of taker, maker,
\* partial, fail, and a partial result has 0 < executed_quantity_quote <
\* order_quantity for the reported value.
C5_PartialReportedBetween ==
    Returned =>
        /\ result.execution_type \in {"taker", "maker", "partial", "fail"}
        /\ result.execution_type = "partial" =>
               /\ RLt(Zero, result.executed_quantity_quote)
               /\ RLt(result.executed_quantity_quote, order_quantity)

\* C5 amended: the execution_type of a result is one of taker, maker,
\* partial, fail, and a partial result has 0 < executed quote < order_quantity
\* before rounding; the reported value lies in 0 .. order_quantity rounded.
C5_PartialExecutedBetween ==
    Returned =>
        /\ result.execution_type \in {"taker", "maker", "partial", "fail"}
        /\ result.execution_type = "partial" =>
               /\ RLt(Zero, executed_quantity_quote)
               /\ RLt(executed_quantity_quote, order_quantity)
               /\ RLe(Zero, result.executed_quantity_quote)
               /\ RLe(result.executed_quantity_quote, round(order_quantity, 2))

C5_Witness ==
    /\ Returned
    /\ result.execution_type = "partial"
    /\ result.executed_quantity_quote = Zero

\* C6: a valid limit order that is not marketable returns execution_type
\* "maker" with zero executed quantity and the warning that the order was
\* placed but not immediately executed.  (Violated: the maker classification
\* and its warning are dropped and the "No execution" fail is returned.)
C6_NonMarketableIsMaker ==
    (Returned /\ ValidCall /\ order_type = "limit" /\ ~MarketableCall) =>
        /\ result.execution_type = "maker"
        /\ result.executed_quantity_quote = Zero
        /\ result.executed_quantity_base = Zero
        /\ \E i \in 1..Len(result.warnings) :
               result.warnings[i] = "Limit order placed but not immediately executed"

\* C7: the fee of a taker or partial result is the executed quote times the
\* profile's taker rate / 100, before rounding.  (Violated: a partial fill is
\* charged at the maker rate.)
C7_TakerRateForTakerAndPartial ==
    (Returned /\ result.execution_type \in {"taker", "partial"}) =>
        fee_paid = RMul(executed_quantity_quote, RDiv(user_fee_profile.taker, Hundred))

\* sum of the quote taken over the first n entries of the walk's history
RECURSIVE FilledQuote(_)
FilledQuote(n) == IF n = 0 THEN Zero ELSE RAdd(FilledQuote(n - 1), fills[n].quote)

\* sum of price * quantity over the first n contra levels not beyond the limit
RECURSIVE NotionalWithinLimit(_)
NotionalWithinLimit(n) ==
    IF n = 0 THEN Zero
    ELSE RAdd(NotionalWithinLimit(n - 1),
              IF BeyondLimit(Contra[n][1]) THEN Zero
              ELSE RMul(Contra[n][1], Contra[n][2]))

\* C8: a limit order never fills beyond its limit: every level the walk took
\* from, and every level before it, has a price at or better than the limit
\* (the walk stops at the first level that violates it), and the executed
\* quote is at most the notional of the levels at or better than the limit.
C8_LimitRespected ==
    /\ \A k \in 1..Len(fills) :
           /\ fills[k].level = k
           /\ fills[k].price = Contra[k][1]
           /\ \A j \in 1..k : ~BeyondLimit(Contra[j][1])
    /\ executed_quantity_quote = FilledQuote(Len(fills))
    /\ ValidCall => RLe(executed_quantity_quote, NotionalWithinLimit(Len(Contra)))

C8_Witness ==
    /\ Walked /\ order_type = "limit"
    /\ fills # << >> /\ Len(fills) < Len(Contra)
    /\ BeyondLimit(Contra[Len(fills) + 1][1])
    /\ RLt(Zero, Contra[Len(fills) + 1][2])
    /\ RLt(R(1, 100), remaining_quantity_quote)

TotalNotional == Notional(Contra, Len(Contra))

HasPartialWarning ==
    \E i \in 1..Len(result.warnings) : result.warnings[i] = "Order partially filled"

\* C9 as claimed: a valid market order for more than the total notional of
\* the contra side (that total being positive) returns "partial", an executed
\* quote equal to that total, and a partial-fill warning.
C9_ExceedingOrderTakesAll ==
    (Returned /\ ValidCall /\ order_type = "market"
        /\ RLt(Zero, TotalNotional) /\ RLt(TotalNotional, order_quantity)) =>
        /\ result.execution_type = "partial"
        /\ executed_quantity_quote = TotalNotional
        /\ HasPartialWarning

\* C9 amended: a valid market order for more than the total notional of the
\* contra side plus 0.01 (that total being positive) returns, when the call
\* returns, "partial", an executed quote equal to that total (reported
\* rounded to 2 decimals), and a partial-fill warning.
C9_ExceedingByThresholdTakesAll ==
    (Returned /\ ValidCall /\ order_type = "market"
        /\ RLt(Zero, TotalNotional)
        /\ RLt(RAdd(TotalNotional, R(1, 100)), order_quantity)) =>
        /\ result.execution_type = "partial"
        /\ executed_quantity_quote = TotalNotional
        /\ result.executed_quantity_quote = round(TotalNotional, 2)
        /\ HasPartialWarning

C9_Witness ==
    /\ Returned /\ ValidCall /\ order_type = "market"
    /\ RLt(RAdd(TotalNotional, R(1, 100)), order_quantity)
    /\ Len(fills) = Len(Contra) /\ Len(fills) >= 2
    /\ RLt(Zero, fills[1].quote) /\ RLt(Zero, fills[2].quote)
    /\ result.execution_type = "partial"

\* A valid market order that fits into the best contra level.
FitsBestLevel ==
    /\ Returned /\ ValidCall /\ order_type = "market"
    /\ RLe(order_quantity, RMul(Contra[1][1], Contra[1][2]))

Mid == RDiv(RAdd(order_book.bids[1][1], order_book.asks[1][1]), R(2, 1))

\* (best_ask - mid) / mid * 100 for a buy, (mid - best_bid) / mid * 100 for a
\* sell.
SignedSlippage ==
    IF side = "buy"
    THEN RMul(RDiv(RSub(order_book.asks[1][1], Mid), Mid), Hundred)
    ELSE RMul(RDiv(RSub(Mid, order_book.bids[1][1]), Mid), Hundred)

Finished == IF pc \in {"done", "raised"} THEN Append(earlier, Outcome) ELSE earlier

\* C11: two calls with the same order and the same snapshot on one engine end
\* the same way (the same result, or the same exception), whatever calls were
\* made before or between them: a call leaves the engine's ADV table as the
\* constructor made it.
C11_SameCallSameResult ==
    /\ adv = default_adv
    /\ \A i, j \in 1..Len(Finished) :
           Finished[i].args = Finished[j].args =>
               /\ Finished[i].result = Finished[j].result
               /\ Finished[i].slippage_pct = Finished[j].slippage_pct
               /\ Finished[i].impact_pct_sq = Finished[j].impact_pct_sq

C11_Witness ==
    /\ pc = "done" /\ Len(earlier) = 2
    /\ earlier[1].args = call
    /\ earlier[2].args # call
    /\ earlier[2].result.execution_type \in {"taker", "partial"}
    /\ result.execution_type \in {"taker", "partial"}
    /\ result = earlier[1].result

\* The call returned a result (it did not raise).
GaveResult(o) == o.result.exception = "none" /\ o.result.execution_type # "raised"

\* Two calls with the same side, type, snapshot, limit price, fee profile
\* and latency.
SameButQuantity(a, b) == \A k \in {1, 2, 4, 5, 6, 7} : a.args[k] = b.args[k]

\* C12: for a fixed sorted, uncrossed snapshot and a fixed side, type, limit
\* price and fee profile, of two calls that return a result the one with the
\* larger quantity has the larger or equal slippage_pct and the larger or
\* equal market_impact_pct, as reported and before rounding.
C12_MonotoneInQuantity ==
    \A i, j \in 1..Len(Finished) :
        (/\ GaveResult(Finished[i]) /\ GaveResult(Finished[j])
         /\ SameButQuantity(Finished[i], Finished[j])
         /\ RLe(Finished[i].args[3], Finished[j].args[3])) =>
            /\ RLe(Finished[i].result.slippage_pct, Finished[j].result.slippage_pct)
            /\ RLe(Finished[i].result.market_impact_pct,
                   Finished[j].result.market_impact_pct)
            /\ RLe(Finished[i].slippage_pct, Finished[j].slippage_pct)
            /\ RLe(Finished[i].impact_pct_sq, Finished[j].impact_pct_sq)

C12_Witness ==
    /\ pc = "done" /\ Len(earlier) >= 1
    /\ SameButQuantity(earlier[1], Outcome)
    /\ earlier[1].result.execution_type = "taker"
    /\ result.execution_type = "partial"
    /\ RLt(earlier[1].args[3], order_quantity)
    /\ RLt(earlier[1].result.slippage_pct, result.slippage_pct)
    /\ RLt(earlier[1].impact_pct_sq, impact_pct_sq)

\* A reported value x, a multiple of 1/scale, in units of 1/scale.
Units(x, scale) == x[1] * (scale \div x[2])

\* average_price * executed_quantity_base - executed_quantity_quote of the
\* result, in units of 10^-10, computed in two halves to stay within 32 bits:
\* with ka, kq in hundredths and kb = bh * 10^4 + bl in units of 10^-8 the
\* difference is ka * kb - kq * 10^8.  Beyond +-10^9 it is cut to +-10^9.
RoundingGap ==
    LET ka == Units(result.average_price, 100)
        kb == Units(result.executed_quantity_base, 100000000)
        kq == Units(result.executed_quantity_quote, 100)
        low == ka * (kb % 10000)
        d == ka * (kb \div 10000) + (low \div 10000) - kq * 10000
    IN  IF d >= 100000 THEN 1000000000
        ELSE IF d <= -100000 THEN -1000000000
        ELSE d * 10000 + (low % 10000)

\* C13 as claimed: in every result that is not a fail the reported values
\* satisfy |average_price * executed_quantity_base - executed_quantity_quote|
\* <= 0.01, also for fills of several units of base currency.
C13_RoundingWithinCent ==
    (Returned /\ result.execution_type # "fail") => Abs(RoundingGap) <= 100000000

\* C13 amended: before rounding average_price * executed_quantity_base is
\* the executed quote exactly, and the reported values differ by at most
\* 0.005 * (executed_quantity_base + 1) + 5 * 10^-9 * (average_price + 0.02):
\* the rounding of the price to 2 decimals is multiplied by the base quantity.
C13_RoundingScalesWithBase ==
    (Returned /\ result.execution_type # "fail") =>
        /\ RMul(average_price, executed_quantity_base) = executed_quantity_quote
        /\ 2 * Abs(RoundingGap) <=
               Units(result.executed_quantity_base, 100000000) + 100000000
                   + Units(result.average_price, 100) + 2

C13_Witness ==
    /\ Returned /\ result.execution_type # "fail"
    /\ RLe(R(3, 1), result.executed_quantity_base)
    /\ Abs(RoundingGap) > 100000000

\* The order book as the caller passed it.
Passed == call[4]

\* C14: simulate_order_execution leaves the caller's order book as it was
\* passed, for every input and every latency: the perturbation of the
\* latency simulation is written to a deep copy.
C14_SnapshotUnchanged == snapshot = Passed

C14_Witness ==
    /\ pc = "done" /\ latency > 0
    /\ order_book # snapshot
    /\ \E i \in 1..Len(snapshot.asks) :
           /\ order_book.asks[i][1] # snapshot.asks[i][1]
           /\ order_book.asks[i][2] # snapshot.asks[i][2]
    /\ result.execution_type \in {"taker", "partial"}

\* min(latency / 1000, 0.1), written out.
Fraction == IF latency >= 100 THEN R(1, 10) ELSE R(latency, 1000)

\* |a - b|
Distance(a, b) == IF RLe(a, b) THEN RSub(b, a) ELSE RSub(a, b)

\* C15 as claimed: with latency > 0 the perturbed book keeps the number of
\* levels, every bid price is lower or equal, every ask price higher or equal,
\* every price and every quantity is changed by at most the fraction
\* min(latency/1000, 0.1) of its original value, and every perturbed quantity
\* is strictly positive.
C15_PerturbationWithinFraction ==
    (latency > 0 /\ pc = "stale") =>
        /\ Len(order_book.bids) = Len(Passed.bids)
        /\ Len(order_book.asks) = Len(Passed.asks)
        /\ \A i \in 1..Len(Passed.bids) : RLe(order_book.bids[i][1], Passed.bids[i][1])
        /\ \A i \in 1..Len(Passed.asks) : RLe(Passed.asks[i][1], order_book.asks[i][1])
        /\ \A key \in {"bids", "asks"} : \A i \in 1..Len(Passed[key]) : \A k \in {1, 2} :
               RLe(Distance(order_book[key][i][k], Passed[key][i][k]),
                   RMul(Fraction, Passed[key][i][k]))
        /\ \A key \in {"bids", "asks"} : \A i \in 1..Len(Passed[key]) :
               RLt(Zero, order_book[key][i][2])

\* C15 amended: with latency > 0 and a book of positive prices, the perturbed
\* book keeps the number of levels, every bid price is lower or equal and
\* every ask price higher or equal, by at most half the fraction f =
\* min(latency/1000, 0.1) of the original price, and every perturbed quantity
\* is max(0.0001, q') for a q' within f/2 of the original quantity q: it is
\* at least 0.0001, and it differs from q by more than f * q when q is below
\* about 0.0001 (a level of quantity 0 gets 0.0001).
C15_PerturbationFloored ==
    (latency > 0 /\ pc = "stale") =>
        /\ Len(order_book.bids) = Len(Passed.bids)
        /\ Len(order_book.asks) = Len(Passed.asks)
        /\ \A i \in 1..Len(Passed.bids) : RLe(order_book.bids[i][1], Passed.bids[i][1])
        /\ \A i \in 1..Len(Passed.asks) : RLe(Passed.asks[i][1], order_book.asks[i][1])
        /\ \A key \in {"bids", "asks"} : \A i \in 1..Len(Passed[key]) :
               LET half == RMul(Fraction, R(1, 2))
                   p == Passed[key][i][1]
                   q == Passed[key][i][2]
                   lowest == RMul(q, RSub(One, half))
                   highest == RMul(q, RAdd(One, half))
               IN  /\ RLe(Distance(order_book[key][i][1], p), RMul(half, p))
                   /\ RLe(RMax(R(1, 10000), lowest), order_book[key][i][2])
                   /\ RLe(order_book[key][i][2], RMax(R(1, 10000), highest))

C15_Witness ==
    /\ latency = 500 /\ pc = "stale"
    /\ Passed.bids[1][2] = Zero /\ order_book.bids[1][2] = R(1, 10000)
    /\ RLt(order_book.bids[1][1], Passed.bids[1][1])
    /\ RLt(Passed.asks[2][1], order_book.asks[2][1])
    /\ RLt(order_book.asks[2][2], Passed.asks[2][2])

-----------------------------------------------------------------------------
(* SimulationEngine: the caller's controls and the simulation loop.        *)

\* Controls and starts given by the caller.
MaxControls == 3

\* What the simulation engine's controls and its loop leave alone.
program == <<args, snapshot, pc, locals, result, adv, call, earlier, ncalls,
             direct, adv_before, nops, feed>>

\* The caller is between two calls and gives one more.
CallerIdle == simulation.caller = "idle" /\ simulation.controls < MaxControls

\* The caller calls start().
Start ==
    /\ CallerIdle
    /\ simulation' = [start(simulation) EXCEPT !.controls = @ + 1]
    /\ UNCHANGED program

\* set_playback_control(PLAY): the control, and start() when the simulation
\* is not running.
Play ==
    /\ CallerIdle
    /\ simulation' = [start([simulation EXCEPT !.playback_control = "play"]) EXCEPT
                          !.requested = "play",
                          !.at_request = simulation.processed,
                          !.controls = @ + 1]
    /\ UNCHANGED program

\* set_playback_control(PAUSE)
Pause ==
    /\ CallerIdle
    /\ simulation' = [simulation EXCEPT !.playback_control = "pause",
                                        !.requested = "pause",
                                        !.at_request = simulation.processed,
                                        !.controls = @ + 1]
    /\ UNCHANGED program

\* set_playback_control(STEP), line 138: self.playback_control = control
RequestStep ==
    /\ CallerIdle
    /\ simulation' = [simulation EXCEPT !.playback_control = "step",
                                        !.caller = "step",
                                        !.requested = "step",
                                        !.at_request = simulation.processed,
                                        !.controls = @ + 1]
    /\ UNCHANGED program

\* Lines 148-149: self.playback_control = PlaybackControl.PLAY
StepPlay ==
    /\ simulation.caller = "step"
    /\ simulation' = [simulation EXCEPT !.playback_control = "play", !.caller = "play"]
    /\ UNCHANGED program

\* Line 151: self._step_requested = True, and the call returns.
StepFlag ==
    /\ simulation.caller = "play"
    /\ simulation' = [simulation EXCEPT !._step_requested = "True", !.caller = "idle"]
    /\ UNCHANGED program

\* set_playback_control(STOP): stop() up to the join of the simulation
\* thread, which the caller waits for when the thread is alive.
Stop ==
    /\ CallerIdle
    /\ LET s == stop([simulation EXCEPT !.playback_control = "stop"], "caller")
       IN  simulation' =
               [s EXCEPT !.caller = IF simulation.is_running THEN "join" ELSE "idle",
                         !.requested = "stop",
                         !.at_request = simulation.processed,
                         !.controls = @ + 1]
    /\ UNCHANGED program

\* simulation_thread.join returns: the thread has ended.
Join ==
    /\ simulation.caller = "join"
    /\ simulation.thread \in {"returned", "RuntimeError"}
    /\ simulation' = [simulation EXCEPT !.caller = "idle"]
    /\ UNCHANGED program

\* _simulation_loop, line 226: self._step_requested = False
LoopBegin ==
    /\ simulation.thread = "started"
    /\ simulation' = [simulation EXCEPT !._step_requested = "False", !.thread = "loop"]
    /\ UNCHANGED program

\* Line 228: the while test fails and _simulation_loop returns.
LoopExit ==
    /\ simulation.thread = "loop"
    /\ ~(simulation.is_running /\ ~simulation.stop_event)
    /\ simulation' = [simulation EXCEPT !.thread = "returned"]
    /\ UNCHANGED program

\* The loop goes on to line 235: the while test holds and the control is
\* not PAUSE (with PAUSE the thread sleeps and tests again).
Playing ==
    /\ simulation.thread = "loop"
    /\ simulation.is_running /\ ~simulation.stop_event
    /\ simulation.playback_control # "pause"

\* Line 235 with a data point left.
GetNextData ==
    /\ Playing
    /\ _get_next_data(simulation).data # 0
    /\ simulation' = [_get_next_data(simulation).simulation EXCEPT !.thread = "data"]
    /\ UNCHANGED program

\* Lines 235-246 with data None: in backtest mode self.stop(), called by
\* the simulation thread, then break; in real-time mode the thread sleeps
\* and goes round the loop.
EndOfData ==
    /\ Playing
    /\ _get_next_data(simulation).data = 0
    /\ simulation.mode = "backtest"
    /\ LET s == stop(simulation, "simulation_thread")
       IN  simulation' = IF s.thread = "RuntimeError" THEN s
                         ELSE [s EXCEPT !.thread = "returned"]
    /\ UNCHANGED program

\* Line 249: self._process_tick(data)
ProcessTick ==
    /\ simulation.thread = "data"
    /\ simulation' = [simulation EXCEPT !.processed = @ + 1, !.thread = "processed"]
    /\ UNCHANGED program

\* Lines 252-254, and back to the while test.
StepCheck ==
    /\ simulation.thread = "processed"
    /\ simulation' =
           IF simulation._step_requested = "True"
           THEN [simulation EXCEPT !.playback_control = "pause",
                                   !._step_requested = "False",
                                   !.thread = "loop"]
           ELSE [simulation EXCEPT !.thread = "loop"]
    /\ UNCHANGED program

InitSimulation == IdleEngine /\ NewEngine

NextSimulation ==
    \/ Start
    \/ Play
    \/ Pause
    \/ RequestStep
    \/ StepPlay
    \/ StepFlag
    \/ Stop
    \/ Join
    \/ LoopBegin
    \/ LoopExit
    \/ GetNextData
    \/ EndOfData
    \/ ProcessTick
    \/ StepCheck

SpecSimulation == InitSimulation /\ [][NextSimulation]_vars

\* C28: connect() always returns: a call of connect that waits for the
\* connection leads to the caller's thread being back outside the handler,
\* whether the connection is established or the wait times out and the mock
\* order book is installed; no thread waits for ever for the handler's lock.
C28_ConnectReturns == (reader.pc = "waiting") ~> (reader.pc = "idle")

\* C29: set_playback_control(STEP) makes the simulation process exactly one
\* tick and return to PAUSE, for every interleaving of the caller with the
\* simulation thread and also when STEP is requested before start(): as
\* long as STEP is the last control given, at most one data point has been
\* processed since, and once that data point is processed and the thread is
\* back at the loop's test, playback_control is PAUSE.
C29_StepProcessesOneTick ==
    (simulation.requested = "step" /\ simulation.caller = "idle") =>
        /\ simulation.processed - simulation.at_request <= 1
        /\ (simulation.processed - simulation.at_request = 1
                /\ simulation.thread = "loop")
               => simulation.playback_control = "pause"

\* C30: in backtest mode, once the historical data is exhausted while
\* playing, the simulation stops cleanly: when the simulation thread has
\* ended with no data point left and no stop() of the caller, is_running is
\* false, the stop event is set, the strategy is stopped and the thread has
\* returned from _simulation_loop without an exception.
C30_StopsCleanly ==
    (/\ simulation.thread \in {"returned", "RuntimeError"}
     /\ simulation.current_data_index = DataPoints
     /\ simulation.requested # "stop") =>
        /\ ~simulation.is_running
        /\ simulation.stop_event
        /\ ~simulation.is_active
        /\ simulation.thread = "returned"

\* Lines 73-76 read the first level of each side as its best price: bids
\* strictly descending and asks strictly ascending by price.
BestFirst(book) ==
    /\ \A i \in 1..(Len(book.bids) - 1) : RLt(book.bids[i + 1][1], book.bids[i][1])
    /\ \A i \in 1..(Len(book.asks) - 1) : RLt(book.asks[i][1], book.asks[i + 1][1])

\* C27: for every latency > 0 and every random draw, the perturbed book of a
\* snapshot with strictly descending bids and strictly ascending asks has
\* strictly descending bids and strictly ascending asks again, so that the
\* walk still goes from the best price to the worst.
C27_PerturbedBookSorted ==
    (latency > 0 /\ pc = "stale" /\ BestFirst(Passed)) => BestFirst(order_book)

\* C16: update_adv(symbol, v) with v <= 0 leaves the ADV table as it was, so
\* that calculate_impact gives for every symbol what it gave before the
\* rejected update; with v > 0 it sets the entry of that symbol to v and
\* leaves every other entry as it was.
C16_UpdateAdvChecked ==
    direct.op = "update_adv" =>
        LET symbol == direct.args[1]
            v == direct.args[2]
        IN  /\ v <= 0 =>
                   /\ adv = adv_before
                   /\ \A s \in {"buy", "sell"}, order_size \in Sizes,
                         book \in ImpactBooks, sym \in Symbols :
                          calculate_impact(s, order_size, book, sym) =
                              calculate_impact_on(adv_before, s, order_size, book, sym)
            /\ v > 0 =>
                   /\ DOMAIN adv = DOMAIN adv_before \cup {symbol}
                   /\ adv[symbol] = v
                   /\ \A k \in DOMAIN adv_before \ {symbol} : adv[k] = adv_before[k]

\* A rejected update of a table that an accepted update has changed before,
\* followed by a calculation with the symbol of the rejected update.
C16_Witness ==
    /\ nops = 3
    /\ direct.op = "calculate_impact" /\ direct.args[4] = "BTC-USDT"
    /\ direct.ret.exception = "none"
    /\ adv = adv_before
    /\ adv["BTC-USDT"] = 1000000
    /\ "SOL-USDT" \notin DOMAIN adv

\* C17: calculate_fee(amount, rate, classification) is amount * rate / 100 when
\* amount > 0 and rate >= 0, and 0 when amount <= 0 or rate < 0, whatever the
\* classification; so fee_paid is never negative in a result of the engine,
\* also with a negative maker rate in the fee profile.
C17_FeeNeverNegative ==
    /\ direct.op = "calculate_fee" =>
           LET amount == direct.args[1]
               rate == direct.args[2]
               fee == direct.ret.value
           IN  /\ direct.ret.exception = "none"
               /\ (RLt(Zero, amount) /\ RLe(Zero, rate)) =>
                      fee = RDiv(RMul(amount, rate), Hundred)
               /\ (RLe(amount, Zero) \/ RLt(rate, Zero)) => fee = Zero
               /\ \A etype \in Classifications :
                      calculate_fee(amount, rate, etype) = fee
    /\ pc = "done" =>
           /\ RLe(Zero, fee_paid)
           /\ RLe(Zero, result.fee_paid)

\* A partial fill charged at a negative maker rate.
C17_Witness ==
    /\ pc = "done"
    /\ result.execution_type = "partial"
    /\ RLt(Zero, executed_quantity_quote)
    /\ user_fee_profile # NoProfile
    /\ RLt(user_fee_profile.maker, Zero)
    /\ fee_rate = user_fee_profile.maker
    /\ result.fee_paid = Zero

\* C18: calculate_slippage is max(0, (avg - mid) / mid * 100) for a buy and
\* max(0, (mid - avg) / mid * 100) for a sell, and 0 when mid <= 0 or
\* avg <= 0: never negative; so slippage_pct is never negative in a result of
\* the engine, also on a crossed book, where the fill is better than the mid.
C18_SlippageNeverNegative ==
    /\ direct.op = "calculate_slippage" =>
           LET s == direct.args[1]
               mid == direct.args[2]
               avg == direct.args[3]
               slip == direct.ret.value
           IN  /\ direct.ret.exception = "none"
               /\ RLe(Zero, slip)
               /\ (RLe(mid, Zero) \/ RLe(avg, Zero)) => slip = Zero
               /\ (RLt(Zero, mid) /\ RLt(Zero, avg) /\ s = "buy") =>
                      slip = RMax(Zero, RMul(RDiv(RSub(avg, mid), mid), Hundred))
               /\ (RLt(Zero, mid) /\ RLt(Zero, avg) /\ s = "sell") =>
                      slip = RMax(Zero, RMul(RDiv(RSub(mid, avg), mid), Hundred))
    /\ pc = "done" =>
           /\ RLe(Zero, slippage_pct)
           /\ RLe(Zero, result.slippage_pct)

\* A buy on a crossed book filled below the mid price.
C18_Witness ==
    /\ pc = "done"
    /\ side = "buy"
    /\ RLt(Zero, executed_quantity_quote)
    /\ RLt(best_ask, best_bid)
    /\ RLt(average_price, mid_price)
    /\ slippage_pct = Zero
    /\ result.slippage_pct = Zero

\* C19: for every side and every book the liquidity factor lies in
\* [0.5, 3.0], so calculate_impact(side, size, book, symbol) is between 0.5
\* and 3.0 times gamma * (size / ADV) ^ delta, where ADV is the entry of the
\* symbol, or the entry "default" when the symbol has none.  On the squared
\* scale: between 1/4 and 9 times (gamma * 10^4)^2 * size / ADV.
\* (Violated: with no quantity in the top levels of both sides the liquidity
\* factor is a division by zero and calculate_impact raises.)
C19_ImpactWithinFactor ==
    direct.op = "calculate_impact" =>
        LET order_size == direct.args[2]
            symbol == direct.args[4]
            ADV == IF symbol \in DOMAIN adv_before THEN adv_before[symbol]
                   ELSE adv_before["default"]
            g == RMul(gamma, R(10000, 1))
            raw_sq == RDiv(RMul(RMul(g, g), order_size), R(ADV, 1))
        IN  /\ direct.ret.exception = "none"
            /\ RLe(RMul(R(1, 4), raw_sq), direct.ret.value)
            /\ RLe(direct.ret.value, RMul(R(9, 1), raw_sq))

Levels(d) == {<<k, d[k]>> : k \in DOMAIN d}

Range(seq) == {seq[k] : k \in 1..Len(seq)}

\* An entry "price, size" that on_message can read.
WellFormed(entry) == process_entry(EmptyDict, entry).exception = "none"

\* The dict of one side after all the entries that can be read.
RECURSIVE after_entries(_, _)
after_entries(d, entries) ==
    IF entries = << >> THEN d
    ELSE LET e == entries[Len(entries)]
             before == after_entries(d, SubSeq(entries, 1, Len(entries) - 1))
         IN  IF WellFormed(e) THEN process_entry(before, e).value ELSE before

after_message(book, m) ==
    [bids |-> after_entries(book.bids, m.bids), asks |-> after_entries(book.asks, m.asks)]

\* The books that the messages leave when each of them counts as a whole:
\* every entry of an update, in the order of arrival; an update with an entry
\* that cannot be read counts either with all its other entries or not at all.
RECURSIVE WholeBooks(_)
WholeBooks(msgs) ==
    IF msgs = << >> THEN {[bids |-> EmptyDict, asks |-> EmptyDict]}
    ELSE LET m == msgs[Len(msgs)]
             before == WholeBooks(SubSeq(msgs, 1, Len(msgs) - 1))
             whole == {after_message(b, m) : b \in before}
         IN  IF ~({"asks", "bids"} \subseteq m.keys) THEN before
             ELSE IF \A e \in Range(m.bids) \cup Range(m.asks) : WellFormed(e)
                  THEN whole
                  ELSE whole \cup before

\* C20: whatever update messages on_message has handled, and however the
\* calls of the reader fall between its steps, get_current_order_book
\* returns the bids by strictly falling price and the asks by strictly
\* rising price, every price once with the size of its last update, no
\* level whose last update had a size <= 0, and no message applied by half.
\* (Violated: an entry that cannot be read ends on_message after the entries
\* before it were applied, and the entries after it never are.)
C20_ReaderSeesWholeMessages ==
    LET r == reader.returned
        msgs == SubSeq(handler.data_buffer, 1, reader.seen)
    IN  /\ \A k \in 1..(Len(r.bids) - 1) : RLt(r.bids[k + 1][1], r.bids[k][1])
        /\ \A k \in 1..(Len(r.asks) - 1) : RLt(r.asks[k][1], r.asks[k + 1][1])
        /\ \A lv \in Range(r.bids) \cup Range(r.asks) : RLt(Zero, lv[2])
        /\ \E b \in WholeBooks(msgs) :
               /\ Range(r.bids) = Levels(b.bids)
               /\ Range(r.asks) = Levels(b.asks)

Positions(w, text) == {k \in 1..Len(w) : w[k] = text}

\* C21: the warning of a large impact is in the warnings exactly when the
\* impact before rounding is > 1.0 percent; it comes after the warning of a
\* partial fill; and with or without it the result carries the
\* execution_type and the numeric values computed before it.
C21_LargeImpactWarned ==
    (pc = "done" /\ result.execution_type # "fail") =>
        LET large == Positions(result.warnings, "Large market impact")
            partial == Positions(result.warnings, "Order partially filled")
        IN  /\ (large # {}) <=> RLt(R(100000000, 1), impact_pct_sq)
            /\ Cardinality(large) <= 1
            /\ \A k \in large : \A j \in partial : j < k
            /\ (partial # {}) <=> result.execution_type = "partial"
            /\ result.execution_type =
                   IF RLt(executed_quantity_quote, order_quantity)
                   THEN "partial" ELSE "taker"
            /\ result.executed_quantity_base = round(executed_quantity_base, 8)
            /\ result.executed_quantity_quote = round(executed_quantity_quote, 2)
            /\ result.average_price =
                   round(RDiv(executed_quantity_quote, executed_quantity_base), 2)
            /\ result.slippage_pct = round(slippage_pct, 2)
            /\ result.market_impact_pct = round_impact(impact_pct_sq)
            /\ result.fee_paid = round(fee_paid, 2)

\* A partial fill with an impact above 1 percent: both warnings, in order.
C21_Witness ==
    /\ pc = "done"
    /\ result.execution_type = "partial"
    /\ RLt(R(100000000, 1), impact_pct_sq)
    /\ result.warnings = <<"Order partially filled", "Large market impact">>
    /\ RLt(One, result.market_impact_pct)

\* How the walk of a marketable order ended: at a level beyond the limit,
\* which it did not take, or after taking the level it stands at.
EndedAtLimit == Len(fills) < level

EndedAfterLevel == fills # << >> /\ fills[Len(fills)].level = level

\* C22: when the walk stops with 0 < remaining <= 0.01 while levels it has
\* not touched still hold quantity, the order counts as filled:
\* execution_type is "taker" and there is no warning of a partial fill;
\* "partial" is reported only when the walk ended because the side was
\* exhausted or the limit stopped it.
\* (Violated: the test of a partial fill compares the executed quote with
\* order_quantity itself, so the remainder within the threshold makes the
\* result "partial".)
C22_WithinThresholdIsTaker ==
    (pc = "done" /\ result.execution_type # "fail") =>
        LET partial == Positions(result.warnings, "Order partially filled")
        IN  /\ ( /\ EndedAfterLevel
                 /\ RLt(Zero, remaining_quantity_quote)
                 /\ RLe(remaining_quantity_quote, fill_threshold)
                 /\ \E k \in (level + 1)..Len(book_side) : RLt(Zero, book_side[k][2]) )
               => (result.execution_type = "taker" /\ partial = {})
            /\ result.execution_type = "partial" =>
                   \/ EndedAtLimit
                   \/ EndedAfterLevel /\ level = Len(book_side)

\* The sum over the first n visited levels of price times base taken.
RECURSIVE TakenQuote(_)
TakenQuote(n) ==
    IF n = 0 THEN Zero
    ELSE RAdd(TakenQuote(n - 1), RMul(fills[n].price, fills[n].base))

C24_PricePriority ==
    ValidCall =>
        /\ \A n \in 1..Len(fills) : fills[n].level = n
        /\ \A n \in 1..Len(fills) :
               RLt(Zero, fills[n].base) =>
                   \A m \in 1..(n - 1) : fills[m].base = fills[m].quantity
        /\ \A n \in 1..(Len(fills) - 1) : fills[n].base = fills[n].quantity

\* A sell that takes the best bid whole and a part of the next one.
C24_Witness ==
    /\ pc = "done" /\ side = "sell"
    /\ result.execution_type = "taker"
    /\ Len(fills) = 2
    /\ fills[1].price = order_book.bids[1][1]
    /\ fills[1].base = order_book.bids[1][2]
    /\ fills[2].price = order_book.bids[2][1]
    /\ RLt(Zero, fills[2].base) /\ RLt(fills[2].base, order_book.bids[2][2])

\* C25: estimate_slippage walks the book as the engine does: for a market
\* order on a sorted book that is not crossed and holds enough to fill the
\* order completely, estimate_slippage(side, size, book) is the slippage the
\* engine computes, before rounding, for that order, from the same average
\* price.
\* (Violated: the engine leaves its walk once remaining <= 0.01, the
\* estimate only once remaining_size <= 0, and takes the rest at the next
\* level.)
C25_EstimateIsEngineWalk ==
    ( /\ direct.op = "estimate_slippage"
      /\ ValidCall /\ order_type = "market"
      /\ RLt(order_book.bids[1][1], order_book.asks[1][1])
      /\ RLe(order_quantity, TotalNotional) )
    => /\ direct.ret.value = slippage_pct
       /\ estimate_average_price(side, order_quantity, order_book) = average_price

\* The thresholds of the fee tiers that a trading volume reaches.
TiersReached(volume) == {n \in 1..Len(fee_tiers) : fee_tiers[n].volume <= volume}

\* C26: in rule-based mode estimate returns the taker rate for a market
\* order and the maker rate for a limit order, of the pair (maker, taker)
\* that is: the pair of the VIP profile when the profile names a known
\* vip_tier; otherwise the pair of the highest fee tier with a threshold <=
\* the trading_volume of the profile; otherwise (0.06, 0.08); times the
\* discount for the size of the order (0.9 above 10000, 0.8 above 100000,
\* 0.7 above 1000000) exactly when no profile is given (None or empty).
C26_EstimatedFeeRate ==
    direct.op = "estimate" =>
        LET order_size == direct.args[1]
            t == direct.args[4]
            profile == direct.args[5]
            given == ~profile.is_none /\ profile.keys # {}
            vip == given /\ "vip_tier" \in profile.keys
                   /\ profile.vip_tier \in {"institutional", "market_maker", "retail"}
            reached == IF given /\ "trading_volume" \in profile.keys
                       THEN TiersReached(profile.trading_volume) ELSE {}
            highest == CHOOSE n \in reached : \A m \in reached : m <= n
            pair == IF vip THEN vip_profiles[profile.vip_tier]
                    ELSE IF reached # {} THEN fee_tiers[highest]
                    ELSE [maker |-> R(6, 100), taker |-> R(8, 100)]
            discount == IF given THEN One
                        ELSE IF RLt(R(1000000, 1), order_size) THEN R(7, 10)
                        ELSE IF RLt(R(100000, 1), order_size) THEN R(8, 10)
                        ELSE IF RLt(R(10000, 1), order_size) THEN R(9, 10)
                        ELSE One
        IN  /\ direct.ret.exception = "none"
            /\ direct.ret.value =
                   RMul(IF t = "market" THEN pair.taker ELSE pair.maker, discount)

\* A limit order of a large size with a profile that names an unknown VIP
\* tier and a trading volume: the maker rate of the tier of 1000000, no
\* discount.
C26_Witness ==
    /\ direct.op = "estimate"
    /\ direct.args[1] = R(1000001, 1)
    /\ direct.args[4] = "limit"
    /\ direct.args[5] = Profile({"vip_tier", "trading_volume"}, "gold", 1000000)
    /\ direct.ret.value = R(3, 100)

=============================================================================
